---- MODULE Spec2Model ----
(***************************************************************************)
(* A model of libp2p-iroh: the Transport facade with its Protocol Actor    *)
(* (src/src/transport.rs) and the multiplexed Connection with its          *)
(* substreams (src/src/connection.rs, src/src/stream.rs), and the address  *)
(* and identity conversions (src/src/helper.rs).                           *)
(*                                                                         *)
(* These specifications share the module and its variables:                *)
(*   Spec       the Transport: listen_on / remove_listener / poll on the   *)
(*              host thread, the ProtocolActor draining its mailbox, and   *)
(*              the Protocol::accept task the router spawns;               *)
(*   HostSpec   the host's calls (listen_on, remove_listener, dial, poll)  *)
(*              with a ProtocolActor that may terminate;                   *)
(*   DialSpec   dial and the polling of the futures it returns;            *)
(*   ConnSpec   one connection: side A's Connection opens substreams,      *)
(*              polled by two callers, side B's accepts them;              *)
(*   DataSpec   one substream, written, flushed and read on both sides;    *)
(*   CloseSpec  poll_close on both sides of the connection;                *)
(*   StreamSpec one Stream used through two clones, and its poll_close;    *)
(*   HalfCloseSpec  a Stream and its peer's, each read, written, closed;   *)
(*   RedialSpec dials that fail and dials that succeed, next to listen_on; *)
(*   ConvSpec   the helper's conversions applied one after another;        *)
(*   PeerSpec   two Transports, one listening and one dialing the other;   *)
(*   SiblingSpec  several Streams of one Connection, closed one by one;    *)
(*   DuplexSpec both sides opening and accepting substreams;               *)
(*   WakeSpec   tasks sharing a Stream through clones, parked and woken    *)
(*              (WakeFairSpec: the same under the runtime's scheduling).   *)
(***************************************************************************)
EXTENDS Integers, Sequences, FiniteSets, TLC

\* ------------------------------------------------------------------ bounds
MaxCalls == 4        \* listen_on / remove_listener calls made by the host

ListenerIds == {1, 2}  \* the ListenerIds the host passes: two, to tell same from other
None == 0            \* Option::None of a ListenerId / Router
Host == 0            \* the caller id of the thread that owns the Transport
Tasks == {1}         \* the Protocol::accept tasks: one inbound connection
Callers == {Host} \cup Tasks
Unit == 0            \* the () an act_ok! closure returns
EndpointHandle == 1  \* actor.endpoint.clone() / endpoint.node_id()

VARIABLES
  \* ProtocolActor (transport.rs:35-43)
  listener_id,   \* actor.listener_id : None or a ListenerId
  router,        \* actor._router : None or the number of the router it holds
  mailbox,       \* actor.rx : the actions sent through Handle, in order
  reply,         \* per caller: the answer its pending call()/call_blocking() got
  actorAlive,    \* the task running ProtocolActor::run still exists
  \* Transport (transport.rs:15-27)
  events,        \* transport_events_rx : the queue poll() drains
  sentLog,       \* history: every event ever sent on transport_events_tx
  delivered,     \* history: every event Transport::poll returned
  \* the host thread inside listen_on / remove_listener
  tpc,           \* where the host thread is
  tcall,         \* the call in progress, a Call record
  hist,          \* history: the calls that returned, with what they returned
  calls,         \* calls made so far
  localRouter,   \* the router listen_on spawned and has not yet handed over
  spawned,       \* routers spawned so far
  \* Protocol::accept tasks
  acc            \* per task: [pc, lid]

tvars == <<listener_id, router, mailbox, reply, actorAlive, events, sentLog,
           delivered, tpc, tcall, hist, calls, localRouter, spawned, acc>>

\* ------------------------------------------------------------ event values
NewAddress(id) == [type |-> "NewAddress", listener_id |-> id]
Incoming(id) == [type |-> "Incoming", listener_id |-> id]

NoReply == <<>>
Ok(v) == <<"ok", v>>
Err == <<"err">>
IsOk(r) == Len(r) = 2

\* A call of the host: reg, rt, alive and log are the actor's listener_id and router,
\* whether its task existed, and Len(sentLog), all when the call was made.
Call(op, id) ==
  [op |-> op, id |-> id, ret |-> "none", reg |-> listener_id, rt |-> router,
   alive |-> actorAlive, log |-> Len(sentLog)]

NoCall == [op |-> "none", id |-> None, ret |-> "none", reg |-> None, rt |-> None,
           alive |-> TRUE, log |-> 0]

\* A message of the mailbox: the closure an act_ok! builds, with what it captured.
Msg(from, act, id, rt) == [from |-> from, act |-> act, id |-> id, rt |-> rt]

\* A Handle that queues the action whether or not anyone will run it.
SendQueued(m) ==
  /\ mailbox' = Append(mailbox, m)
  /\ reply' = [reply EXCEPT ![m.from] = NoReply]

\* Handle::call / call_blocking: the action is queued while the actor task runs;
\* with the task gone the call fails at once.
Send(m) ==
  IF actorAlive
  THEN /\ mailbox' = Append(mailbox, m)
       /\ reply' = [reply EXCEPT ![m.from] = NoReply]
  ELSE /\ mailbox' = mailbox
       /\ reply' = [reply EXCEPT ![m.from] = Err]

TInit ==
  /\ listener_id = None
  /\ router = None
  /\ mailbox = <<>>
  /\ reply = [c \in Callers |-> NoReply]
  /\ actorAlive = TRUE
  /\ events = <<>>
  /\ sentLog = <<>>
  /\ delivered = <<>>
  /\ tpc = "idle"
  /\ tcall = NoCall
  /\ hist = <<>>
  /\ calls = 0
  /\ localRouter = None
  /\ spawned = 0
  /\ acc = [k \in Tasks |-> [pc |-> "unborn", lid |-> None]]

\* --------------------------------------------------------- ProtocolActor
\* The closures the actor runs (act_ok! bodies), by the name the model gives them:
\*   getListener   actor.listener_id                  (transport.rs:249, 321, 442)
\*   getEndpoint   actor.endpoint.clone()             (transport.rs:265)
\*   getNodeId     actor.endpoint.node_id()           (transport.rs:430)
\*   setRouter     actor._router = Some(_router);
\*                 actor.listener_id = Some(id)       (transport.rs:284-285)
\*   clearListener actor.listener_id = None           (transport.rs:329)
\*   sendIncoming  actor.transport_tx.send(Incoming)  (transport.rs:457-471)

\* What remove_listener's closure leaves in the actor: only listener_id is reset.
ClearedListener == [lid |-> None, rt |-> router]

\* What listen_on's closure leaves in the actor.
Registered(m) == [lid |-> m.id, rt |-> m.rt]

\* The event the accept closure sends: it carries the id the task captured.
IncomingOf(m) == Incoming(m.id)

\* An actor that takes the action sent last.
ReceivedNewest(q) == Len(q)

\* rx.recv_async(): the action that has waited longest in the channel.
Received(q) == 1

\* ProtocolActor::run: one action is received and run to completion.
ActorRun ==
  /\ actorAlive
  /\ mailbox # <<>>
  /\ LET i == Received(mailbox)
         m == mailbox[i]
     IN
     /\ mailbox' = SubSeq(mailbox, 1, i - 1) \o SubSeq(mailbox, i + 1, Len(mailbox))
     /\ CASE m.act = "getListener" ->
               /\ reply' = [reply EXCEPT ![m.from] = Ok(listener_id)]
               /\ UNCHANGED <<listener_id, router, events, sentLog>>
          [] m.act \in {"getEndpoint", "getNodeId"} ->
               /\ reply' = [reply EXCEPT ![m.from] = Ok(EndpointHandle)]
               /\ UNCHANGED <<listener_id, router, events, sentLog>>
          [] m.act = "setRouter" ->
               /\ router' = Registered(m).rt
               /\ listener_id' = Registered(m).lid
               /\ reply' = [reply EXCEPT ![m.from] = Ok(Unit)]
               /\ UNCHANGED <<events, sentLog>>
          [] m.act = "clearListener" ->
               /\ router' = ClearedListener.rt
               /\ listener_id' = ClearedListener.lid
               /\ reply' = [reply EXCEPT ![m.from] = Ok(Unit)]
               /\ UNCHANGED <<events, sentLog>>
          [] m.act = "sendIncoming" ->
               /\ events' = Append(events, IncomingOf(m))
               /\ sentLog' = Append(sentLog, IncomingOf(m))
               /\ reply' = [reply EXCEPT ![m.from] = Ok(Unit)]
               /\ UNCHANGED <<listener_id, router>>
  /\ UNCHANGED <<actorAlive, delivered, tpc, tcall, hist, calls,
                 localRouter, spawned, acc>>

\* The actor task ends (its runtime shuts down): queued actions are dropped and
\* their callers' calls fail.
ActorStop ==
  /\ actorAlive
  /\ actorAlive' = FALSE
  /\ reply' = [c \in Callers |->
                 IF \E i \in 1..Len(mailbox) : mailbox[i].from = c
                 THEN Err ELSE reply[c]]
  /\ mailbox' = <<>>
  /\ UNCHANGED <<listener_id, router, events, sentLog, delivered, tpc, tcall,
                 hist, calls, localRouter, spawned, acc>>

\* ------------------------------------------------------------- Transport
\* The host thread returns from a call.
Return(ret) ==
  /\ tpc' = "idle"
  /\ hist' = Append(hist, [tcall EXCEPT !.ret = ret])
  /\ tcall' = NoCall

\* Transport::listen_on, first call_blocking: ask the actor for listener_id.
ListenOn(id) ==
  /\ tpc = "idle"
  /\ calls < MaxCalls
  /\ calls' = calls + 1
  /\ tcall' = Call("listen_on", id)
  /\ Send(Msg(Host, "getListener", None, None))
  /\ tpc' = "L_id"
  /\ UNCHANGED <<listener_id, router, actorAlive, events, sentLog, delivered,
                 hist, localRouter, spawned, acc>>

\* A listen_on that never finds a listener registered.
AlreadyListeningNever(answer) == FALSE

\* listen_on refuses when the actor answered Some(_).
AlreadyListening(answer) == answer # None

\* listen_on, lines 250-273: the answer arrives; an existing listener or a failed
\* call ends it with a Listen error, otherwise the endpoint is asked for.
ListenOnChecked ==
  /\ tpc = "L_id"
  /\ reply[Host] # NoReply
  /\ IF ~IsOk(reply[Host]) \/ AlreadyListening(reply[Host][2])
     THEN /\ Return("ListenErr")
          /\ reply' = [reply EXCEPT ![Host] = NoReply]
          /\ UNCHANGED mailbox
     ELSE /\ Send(Msg(Host, "getEndpoint", None, None))
          /\ tpc' = "L_ep"
          /\ UNCHANGED <<tcall, hist>>
  /\ UNCHANGED <<listener_id, router, actorAlive, events, sentLog, delivered,
                 calls, localRouter, spawned, acc>>

\* listen_on, lines 262-280: with the endpoint in hand the router is spawned; from
\* here on the endpoint hands inbound connections to Protocol::accept.
ListenOnSpawn ==
  /\ tpc = "L_ep"
  /\ reply[Host] # NoReply
  /\ reply' = [reply EXCEPT ![Host] = NoReply]
  /\ IF IsOk(reply[Host])
     THEN /\ spawned' = spawned + 1
          /\ localRouter' = spawned + 1
          /\ tpc' = "L_spawned"
          /\ UNCHANGED <<tcall, hist>>
     ELSE /\ Return("ListenErr")
          /\ UNCHANGED <<spawned, localRouter>>
  /\ UNCHANGED <<listener_id, router, mailbox, actorAlive, events, sentLog,
                 delivered, calls, acc>>

\* listen_on, lines 281-286: the router and the id are sent to the actor.
ListenOnRegister ==
  /\ tpc = "L_spawned"
  /\ Send(Msg(Host, "setRouter", tcall.id, localRouter))
  /\ localRouter' = None
  /\ tpc' = "L_set"
  /\ UNCHANGED <<listener_id, router, actorAlive, events, sentLog, delivered,
                 tcall, hist, calls, spawned, acc>>

\* A listen_on that takes the router as stored whatever the call returned.
RouterStoredAnyway(r) == TRUE

\* listen_on, lines 281-292: `.map_err(..)?` on the call that stores the router.
RouterStored(r) == IsOk(r)

\* listen_on, lines 287-315: once the actor has stored them, NewAddress is sent.
ListenOnEmit ==
  /\ tpc = "L_set"
  /\ reply[Host] # NoReply
  /\ reply' = [reply EXCEPT ![Host] = NoReply]
  /\ IF RouterStored(reply[Host])
     THEN /\ events' = Append(events, NewAddress(tcall.id))
          /\ sentLog' = Append(sentLog, NewAddress(tcall.id))
          /\ Return("Ok")
     ELSE /\ Return("ListenErr")
          /\ UNCHANGED <<events, sentLog>>
  /\ UNCHANGED <<listener_id, router, mailbox, actorAlive, delivered, calls,
                 localRouter, spawned, acc>>

\* Transport::remove_listener, first call_blocking.
RemoveListener(id) ==
  /\ tpc = "idle"
  /\ calls < MaxCalls
  /\ calls' = calls + 1
  /\ tcall' = Call("remove_listener", id)
  /\ Send(Msg(Host, "getListener", None, None))
  /\ tpc' = "R_id"
  /\ UNCHANGED <<listener_id, router, actorAlive, events, sentLog, delivered,
                 hist, localRouter, spawned, acc>>

\* A remove_listener that accepts any id while a listener is registered.
MatchesAny(answer, id) == answer # None

\* remove_listener matches the answer (a failed call counts as None) with its id.
MatchesListener(answer, id) == answer # None /\ answer = id

\* remove_listener, lines 322-335.
RemoveListenerChecked ==
  /\ tpc = "R_id"
  /\ reply[Host] # NoReply
  /\ LET answer == IF IsOk(reply[Host]) THEN reply[Host][2] ELSE None IN
     IF MatchesListener(answer, tcall.id)
     THEN /\ Send(Msg(Host, "clearListener", None, None))
          /\ tpc' = "R_clear"
          /\ UNCHANGED <<tcall, hist>>
     ELSE /\ Return("false")
          /\ reply' = [reply EXCEPT ![Host] = NoReply]
          /\ UNCHANGED mailbox
  /\ UNCHANGED <<listener_id, router, actorAlive, events, sentLog, delivered,
                 calls, localRouter, spawned, acc>>

\* remove_listener, lines 326-332: the result of the clearing call is dropped (.ok()).
RemoveListenerDone ==
  /\ tpc = "R_clear"
  /\ reply[Host] # NoReply
  /\ reply' = [reply EXCEPT ![Host] = NoReply]
  /\ Return("true")
  /\ UNCHANGED <<listener_id, router, mailbox, actorAlive, events, sentLog,
                 delivered, calls, localRouter, spawned, acc>>

VARIABLES
  lastPoll       \* history: the last Transport::poll, [polled, queue, ret]: the
                 \* queue it found and what it returned

pvars == <<lastPoll>>

\* What Transport::poll returns: Poll::Pending, or Poll::Ready(event).
PollPending == <<>>
PollReady(e) == <<e>>

PInit == lastPoll = [polled |-> FALSE, queue |-> <<>>, ret |-> PollPending]

\* A receiver that hands out the newest queued event.
Newest(q) == Len(q)

\* UnboundedReceiver::poll_recv hands out the oldest queued event.
Oldest(q) == 1

\* Transport::poll, lines 403-407: with no event queued poll_recv is Pending (the
\* channel is never closed: the Transport holds a sender itself) and so is poll;
\* otherwise the event poll_recv hands out is returned.  poll takes the Transport
\* by &mut, as listen_on and remove_listener do: the host is in none of them.
Poll ==
  /\ tpc = "idle"
  /\ IF events = <<>>
     THEN /\ lastPoll' = [polled |-> TRUE, queue |-> events, ret |-> PollPending]
          /\ UNCHANGED <<delivered, events>>
     ELSE LET i == Oldest(events) IN
          /\ lastPoll' = [polled |-> TRUE, queue |-> events,
                           ret |-> PollReady(events[i])]
          /\ delivered' = Append(delivered, events[i])
          /\ events' = SubSeq(events, 1, i - 1) \o SubSeq(events, i + 1, Len(events))
  /\ UNCHANGED <<listener_id, router, mailbox, reply, actorAlive, sentLog, tpc,
                 tcall, hist, calls, localRouter, spawned, acc>>

\* -------------------------------------------------------- Protocol::accept
\* A router accepts inbound connections from its spawn until it is dropped: the one
\* the actor holds in _router, or the one listen_on has spawned and not yet sent.
RouterAlive == router # None \/ localRouter # None

SetAcc(k, pc, lid) == acc' = [acc EXCEPT ![k] = [pc |-> pc, lid |-> lid]]

\* accept, lines 412-434: the endpoint hands over a connection; the remote identity
\* is resolved (idOk: remote_node_id and node_id_to_peerid succeed) and the actor
\* is asked for the local node id.
AcceptStart(k, idOk) ==
  /\ acc[k].pc = "unborn"
  /\ \A j \in Tasks : j < k => acc[j].pc # "unborn"
  /\ RouterAlive
  /\ IF idOk
     THEN /\ Send(Msg(k, "getNodeId", None, None))
          /\ SetAcc(k, "nodeid", None)
     ELSE /\ SetAcc(k, "err", None)
          /\ UNCHANGED <<mailbox, reply>>
  /\ UNCHANGED <<listener_id, router, actorAlive, events, sentLog, delivered,
                 tpc, tcall, hist, calls, localRouter, spawned>>

\* accept, lines 439-445: the local address is known; the actor is asked for
\* listener_id.
AcceptAskListener(k) ==
  /\ acc[k].pc = "nodeid"
  /\ reply[k] # NoReply
  /\ IF IsOk(reply[k])
     THEN /\ Send(Msg(k, "getListener", None, None))
          /\ SetAcc(k, "lid", None)
     ELSE /\ SetAcc(k, "err", None)
          /\ reply' = [reply EXCEPT ![k] = NoReply]
          /\ UNCHANGED mailbox
  /\ UNCHANGED <<listener_id, router, actorAlive, events, sentLog, delivered,
                 tpc, tcall, hist, calls, localRouter, spawned>>

\* An accept that goes on without a listener.
HasListenerAlways(answer) == TRUE

\* accept, lines 447-450: None is the error "Listener ID should be set".
HasListener(answer) == answer # None

\* accept, lines 447-472: with Some(listener_id) the closure that sends Incoming is
\* handed to the actor; with None, or a failed call, accept returns an error.
AcceptSend(k) ==
  /\ acc[k].pc = "lid"
  /\ reply[k] # NoReply
  /\ IF IsOk(reply[k]) /\ HasListener(reply[k][2])
     THEN /\ Send(Msg(k, "sendIncoming", reply[k][2], None))
          /\ SetAcc(k, "send", reply[k][2])
     ELSE /\ SetAcc(k, IF IsOk(reply[k]) THEN "nolistener" ELSE "err", None)
          /\ reply' = [reply EXCEPT ![k] = NoReply]
          /\ UNCHANGED mailbox
  /\ UNCHANGED <<listener_id, router, actorAlive, events, sentLog, delivered,
                 tpc, tcall, hist, calls, localRouter, spawned>>

\* accept, lines 473-475: the send closure has run; accept returns.
AcceptDone(k) ==
  /\ acc[k].pc = "send"
  /\ reply[k] # NoReply
  /\ reply' = [reply EXCEPT ![k] = NoReply]
  /\ SetAcc(k, IF IsOk(reply[k]) THEN "ok" ELSE "err", acc[k].lid)
  /\ UNCHANGED <<listener_id, router, mailbox, actorAlive, events, sentLog,
                 delivered, tpc, tcall, hist, calls, localRouter, spawned>>


\* ------------------------------------------------------------ Transport::dial
\* A NodeId (iroh EndpointId) is an ed25519 public key: here a number, which
\* stands for the 32 bytes NodeId::as_bytes gives.
NodeIds == {1, 2, 3}

KeyLen == 32         \* the bytes of an ed25519 public key
PeerIdLen == 38      \* the bytes of a PeerId that holds an ed25519 key
KeyOffset == 6       \* the bytes of such a PeerId that precede the key

AsBytes(n) == [i \in 1..KeyLen |-> n]

\* 32 bytes that are no public key.
NoKey == [i \in 1..KeyLen |-> 255]

\* EndpointId::from_bytes: the NodeId whose bytes these are, if they are a key.
FromBytes(b) ==
  IF \E n \in NodeIds : AsBytes(n) = b
  THEN CHOOSE n \in NodeIds : AsBytes(n) = b
  ELSE None

\* A PeerId is the bytes PeerId::to_bytes gives, a multihash: hash code, digest
\* length, digest.  The identity hash (code 0) holds up to 42 bytes, which PeerId
\* takes as they are; sha2-256 (code 18) holds 32.
Ed25519Head == <<0, 36, 8, 1, 18, 32>>   \* identity of 36: protobuf of an ed25519 key
OtherHead == <<0, 36, 8, 3, 18, 32>>     \* identity of 36: protobuf of another key type
Secp256k1Head == <<0, 37, 8, 2, 18, 33>> \* identity of 37: protobuf of a secp256k1 key

\* PeerId::from_public_key of an ed25519 key.
FromPublicKey(key) == Ed25519Head \o key

Sha256PeerId == <<18, 32>> \o AsBytes(1)
Secp256k1PeerId == Secp256k1Head \o <<2>> \o AsBytes(1)

\* helper::node_id_to_peerid: the PeerId of the NodeId's key (try_from_bytes
\* succeeds on the bytes of a NodeId).
NodeIdToPeerId(n) == FromPublicKey(AsBytes(n))

PeerIds ==
  {NodeIdToPeerId(n) : n \in NodeIds} \cup {OtherHead \o AsBytes(n) : n \in NodeIds}
    \cup {Ed25519Head \o NoKey, Sha256PeerId, Secp256k1PeerId}

\* A Multiaddr: its protocol components in order.  A P2p component carries a PeerId.
Ip4 == [proto |-> "ip4", pid |-> <<>>]
P2p(pid) == [proto |-> "p2p", pid |-> pid]

\* helper::iroh_node_id_to_multiaddr: the one component /p2p/<PeerId of the key>.
NodeIdToMultiaddr(n) == <<P2p(FromPublicKey(AsBytes(n)))>>

DialAddrs ==
  {<<>>, <<Ip4>>, <<P2p(Sha256PeerId)>>, <<P2p(Ed25519Head \o NoKey)>>,
   NodeIdToMultiaddr(1), <<Ip4, P2p(Sha256PeerId), P2p(NodeIdToPeerId(1))>>}

\* A peer_id_to_node_id that takes the first 32 bytes for the key.
KeySliceFromStart(bytes) == SubSeq(bytes, 1, KeyLen)

\* peer_id_to_node_id, line 52: `&bytes[6..]`.
KeySlice(bytes) == SubSeq(bytes, KeyOffset + 1, Len(bytes))

\* helper::peer_id_to_node_id: of 38 bytes the last 32, if they are a key; else None.
PeerIdToNodeId(pid) ==
  IF Len(pid) # PeerIdLen THEN None
  ELSE IF Len(KeySlice(pid)) # KeyLen THEN None
  ELSE FromBytes(KeySlice(pid))

\* helper::multiaddr_to_iroh_node_id: the NodeId of the first P2p component that
\* has one.
RECURSIVE MultiaddrToNodeId(_)
MultiaddrToNodeId(addr) ==
  IF addr = <<>> THEN None
  ELSE IF Head(addr).proto = "p2p" /\ PeerIdToNodeId(Head(addr).pid) # None
       THEN PeerIdToNodeId(Head(addr).pid)
       ELSE MultiaddrToNodeId(Tail(addr))

VARIABLES
  dials,         \* the futures dial has returned, in order: [st, node, late]; st is
                 \* "new" (never polled), "connecting", "ok" or "err"; late: the
                 \* Transport's timeout has passed since the connect began
  connects,      \* history: endpoint.connect calls
  dlast          \* history: the last poll of a dial future, [polled, fut, ret, late]

dvars == <<dials, connects, dlast>>

DInit ==
  /\ dials = <<>>
  /\ connects = 0
  /\ dlast = [polled |-> FALSE, fut |-> 0, ret |-> "none", late |-> FALSE]

\* A dial that goes on without a NodeId.
NoNodeIdNever(nid) == FALSE

\* dial, lines 344-354: `.ok_or_else(..)?` on the NodeId of the address.
NoNodeId(nid) == nid = None

\* A dial whose closure resets the actor's listener.
DialActionClears == "clearListener"

\* dial, line 360: the closure dial hands to the actor, `actor.endpoint.clone()`.
DialAction == "getEndpoint"

\* Transport::dial, lines 338-358: without a NodeId it returns the Dial error;
\* otherwise the actor is asked for the endpoint.
Dial(addr) ==
  /\ tpc = "idle"
  /\ calls < MaxCalls
  /\ calls' = calls + 1
  /\ LET nid == MultiaddrToNodeId(addr) IN
     IF NoNodeId(nid)
     THEN /\ hist' = Append(hist, [Call("dial", nid) EXCEPT !.ret = "DialErr"])
          /\ UNCHANGED <<tpc, tcall, mailbox, reply>>
     ELSE /\ tcall' = Call("dial", nid)
          /\ Send(Msg(Host, DialAction, None, None))
          /\ tpc' = "D_ep"
          /\ UNCHANGED hist
  /\ UNCHANGED <<listener_id, router, actorAlive, events, sentLog, delivered,
                 localRouter, spawned, acc>>
  /\ UNCHANGED dvars

\* dial, lines 358-394: a failed call is the Dial error; otherwise the future that
\* will connect is returned, not yet polled.
DialChecked ==
  /\ tpc = "D_ep"
  /\ reply[Host] # NoReply
  /\ reply' = [reply EXCEPT ![Host] = NoReply]
  /\ IF IsOk(reply[Host])
     THEN /\ dials' = Append(dials, [st |-> "new", node |-> tcall.id,
                                     late |-> FALSE])
          /\ Return("Ok")
     ELSE /\ Return("DialErr")
          /\ UNCHANGED dials
  /\ UNCHANGED <<listener_id, router, mailbox, actorAlive, events, sentLog,
                 delivered, calls, localRouter, spawned, acc>>
  /\ UNCHANGED <<connects, dlast>>

\* The dial future, lines 370-394: what a poll returns given what the connect has
\* come to; the Transport's timeout field is read nowhere in it.
DialResult(outcome, late) ==
  CASE outcome = "connected" -> "Ok"
    [] outcome = "failed" -> "DialErr"
    [] OTHER -> "Pending"

\* A poll of dial future i: the first poll calls endpoint.connect; outcome is what
\* the connect has come to by this poll.
PollDial(i, outcome) ==
  /\ dials[i].st \in {"new", "connecting"}
  /\ LET ret == DialResult(outcome, dials[i].late) IN
     /\ dials' = [dials EXCEPT ![i].st = CASE ret = "Ok" -> "ok"
                                           [] ret = "DialErr" -> "err"
                                           [] OTHER -> "connecting"]
     /\ dlast' = [polled |-> TRUE, fut |-> i, ret |-> ret, late |-> dials[i].late]
  /\ connects' = connects + (IF dials[i].st = "new" THEN 1 ELSE 0)
  /\ UNCHANGED tvars

\* The time of Transport::timeout passes while dial future i is connecting.
TimeoutElapses(i) ==
  /\ dials[i].st = "connecting"
  /\ ~dials[i].late
  /\ dials' = [dials EXCEPT ![i].late = TRUE]
  /\ UNCHANGED <<connects, dlast>>
  /\ UNCHANGED tvars

\* ======================================================================
\* The multiplexed Connection (connection.rs) and its Streams (stream.rs)
\* ======================================================================
MaxChans == 2        \* bidirectional channels the connection lets be open (its stream limit)
MaxAppBytes == 2     \* bytes the applications write on Streams, in all

Sides == {"A", "B"}  \* the two endpoints of the underlying connection
Peer(s) == IF s = "A" THEN "B" ELSE "A"
Pollers == {1, 2}    \* the callers that poll one Connection's poll_outbound
Bytes == {0, 1}      \* the byte values an application writes
Sentinel == 0        \* the handshake byte: write_u8(0)

VARIABLES
  \* Connection (connection.rs:56-61), one per side
  incoming,      \* Connection::incoming : the cached accept future, [st, ch]
  outgoing,      \* Connection::outgoing : the cached open future, [st, ch]
  closing,       \* Connection::closing : "none", or the closed() future's state
  panicked,      \* a poll resumed a completed future: the polling task panicked
  \* the underlying iroh connection
  connClosed,    \* per side: "open", or the reason closed() reports there
  chans,         \* the bidirectional channels opened so far, in order
  streams,       \* per side: the channels whose Stream the application holds
  \* history
  openCalls,     \* per side: connection.open_bi() calls
  acceptCalls,   \* per side: connection.accept_bi() calls
  closeCalls,    \* per side: connection.close() calls made by poll_close
  last,          \* the poll that returned last: [op, side, poller, ret, ch,
                 \* reason, cached]; cached: it found its slot holding a future
  pend,          \* per side and poller: the open operation the poller is waiting
                 \* for (the one in flight when it was first told Pending), or 0
  appBytes       \* bytes written by the applications so far

cvars == <<incoming, outgoing, closing, panicked, connClosed, chans, streams,
           openCalls, acceptCalls, closeCalls, last, pend, appBytes>>


\* A future slot: Option<BoxFuture>. st is "none" (None), "new" (created, not yet
\* polled), "chan" (awaiting accept_bi / open_bi), "byte" (awaiting read_u8 /
\* write_u8 on channel ch) or "done" (it has completed and is still in the slot).
NoFut == [st |-> "none", ch |-> 0]
NewFut == [st |-> "new", ch |-> 0]
DoneFut == [st |-> "done", ch |-> 0]

\* A channel: the opener's send direction (out) carries the sentinel and then the
\* opener's bytes; back is the acceptor's send direction.  Arr counts the bytes
\* that have arrived in order at the reader, Pos those the reader has consumed.
NewChan(s) ==
  [opener |-> s, seen |-> FALSE, taken |-> FALSE,
   out |-> <<>>, outArr |-> 0, outPos |-> 0, outFlushed |-> 0,
   back |-> <<>>, backArr |-> 0, backPos |-> 0,
   wrO |-> <<>>, rdA |-> <<>>, wrA |-> <<>>, rdO |-> <<>>]

ChanIds == 1..Len(chans)

\* What a poll returned.
Returned(op, s, p, ret, ch, reason, cached) ==
  [op |-> op, side |-> s, poller |-> p, ret |-> ret, ch |-> ch,
   reason |-> reason, cached |-> cached]

NoPoll == Returned("none", "A", 0, "none", 0, "none", FALSE)

CInit ==
  /\ incoming = [s \in Sides |-> NoFut]
  /\ outgoing = [s \in Sides |-> NoFut]
  /\ closing = [s \in Sides |-> "none"]
  /\ panicked = [s \in Sides |-> FALSE]
  /\ connClosed = [s \in Sides |-> "open"]
  /\ chans = <<>>
  /\ streams = [s \in Sides |-> {}]
  /\ openCalls = [s \in Sides |-> 0]
  /\ acceptCalls = [s \in Sides |-> 0]
  /\ closeCalls = [s \in Sides |-> 0]
  /\ last = NoPoll
  /\ pend = [s \in Sides |-> [p \in Pollers |-> 0]]
  /\ appBytes = 0

\* A slot that forgets its future: every poll starts a new operation.
AlwaysInsert(slot) == NewFut

\* Option::get_or_insert_with: the cached future, or a new one when the slot is None.
GetOrInsert(slot) == IF slot.st = "none" THEN NewFut ELSE slot

\* A poll that never empties the slot.
SlotKept(result, fut) == IF result = "Err" THEN DoneFut ELSE fut

\* poll_inbound / poll_outbound after polling the future: `ready!(..)?` returns on
\* Pending and on Err before `take()` runs, so only an Ok empties the slot.
SlotAfter(result, fut) ==
  CASE result = "Ok" -> NoFut
    [] result = "Err" -> DoneFut
    [] OTHER -> fut

\* Stream::new(send_half, recv_half): wraps the two halves; no I/O of its own.
StreamNew(held, ch) == held \cup {ch}

\* The handshake of the open future: s.write_u8(0).
WriteHandshake(c) == [c EXCEPT !.out = Append(@, Sentinel)]

\* An accept future that reads nothing.
ReadNothing(c) == c

\* The handshake of the accept future: r.read_u8() consumes one byte.
ReadHandshake(c) == [c EXCEPT !.outPos = @ + 1]

Min(S) == CHOOSE x \in S : \A y \in S : x <= y

\* connection.open_bi() resolves with a new channel when the connection has room
\* for one (room: the peer's stream limit allows it now).
CanOpen(room) == room /\ Len(chans) < MaxChans

\* A poll_outbound that looks for its future in the slot of the other direction.
IncomingSlotOf(s) == incoming[s]

\* The slot poll_outbound works on: `this.outgoing`.
OutgoingSlot(s) == outgoing[s]

\* Connection::poll_outbound.  room and credit are the connection's answers at this
\* poll: whether open_bi finds a free stream, whether write_u8 finds send credit.
PollOutbound(s, p, room, credit) ==
  /\ ~panicked[s]
  /\ LET fut0 == GetOrInsert(OutgoingSlot(s))
         closed == connClosed[s] # "open"
         starts == fut0.st = "new"
         opens == fut0.st \in {"new", "chan"} /\ ~closed /\ CanOpen(room)
         ch == IF opens THEN Len(chans) + 1 ELSE fut0.ch
         atByte == opens \/ fut0.st = "byte"
         writes == atByte /\ ~closed /\ credit
         result == CASE fut0.st = "done" -> "panic"
                     [] closed -> "Err"
                     [] writes -> "Ok"
                     [] OTHER -> "Pending"
         fut1 == [st |-> IF atByte THEN "byte" ELSE "chan", ch |-> ch]
         chans1 == IF opens THEN Append(chans, NewChan(s)) ELSE chans
         op == openCalls[s] + (IF starts THEN 1 ELSE 0)
     IN
     /\ outgoing' = [outgoing EXCEPT ![s] =
                       IF result = "panic" THEN @ ELSE SlotAfter(result, fut1)]
     /\ panicked' = [panicked EXCEPT ![s] = (result = "panic")]
     /\ openCalls' = [openCalls EXCEPT ![s] = op]
     /\ chans' = IF writes THEN [chans1 EXCEPT ![ch] = WriteHandshake(@)]
                 ELSE chans1
     /\ streams' = IF result = "Ok"
                   THEN [streams EXCEPT ![s] = StreamNew(@, ch)] ELSE streams
     /\ last' = Returned("poll_outbound", s, p, result,
                          IF result = "Ok" THEN ch ELSE 0, "none",
                          outgoing[s].st # "none")
     /\ pend' = [pend EXCEPT ![s][p] =
                   IF result = "Pending" THEN (IF @ = 0 THEN op ELSE @) ELSE 0]
  /\ UNCHANGED <<incoming, closing, connClosed, acceptCalls, closeCalls,
                 appBytes>>

\* connection.accept_bi() yields the peer's channels in the order they were opened,
\* each once the acceptor has seen it.
Acceptable(s) ==
  {c \in ChanIds : chans[c].opener # s /\ chans[c].seen /\ ~chans[c].taken}

\* A read_u8 that resolves without a byte.
AlwaysReadable(c) == TRUE

\* r.read_u8() resolves when a byte of the channel has arrived and is unread.
HandshakeReadable(c) == c.outArr > c.outPos

\* Connection::poll_inbound.
PollInbound(s) ==
  /\ ~panicked[s]
  /\ LET fut0 == GetOrInsert(incoming[s])
         closed == connClosed[s] # "open"
         starts == fut0.st = "new"
         accepts == fut0.st \in {"new", "chan"} /\ ~closed /\ Acceptable(s) # {}
         ch == IF accepts THEN Min(Acceptable(s)) ELSE fut0.ch
         atByte == accepts \/ fut0.st = "byte"
         reads == atByte /\ ~closed /\ HandshakeReadable(chans[ch])
         result == CASE fut0.st = "done" -> "panic"
                     [] closed -> "Err"
                     [] reads -> "Ok"
                     [] OTHER -> "Pending"
         fut1 == [st |-> IF atByte THEN "byte" ELSE "chan", ch |-> ch]
         chans1 == IF accepts THEN [chans EXCEPT ![ch].taken = TRUE] ELSE chans
     IN
     /\ incoming' = [incoming EXCEPT ![s] =
                       IF result = "panic" THEN @ ELSE SlotAfter(result, fut1)]
     /\ panicked' = [panicked EXCEPT ![s] = (result = "panic")]
     /\ acceptCalls' = [acceptCalls EXCEPT ![s] = @ + (IF starts THEN 1 ELSE 0)]
     /\ chans' = IF reads THEN [chans1 EXCEPT ![ch] = ReadHandshake(@)]
                 ELSE chans1
     /\ streams' = IF result = "Ok"
                   THEN [streams EXCEPT ![s] = StreamNew(@, ch)] ELSE streams
     /\ last' = Returned("poll_inbound", s, 0, result,
                          IF result = "Ok" THEN ch ELSE 0, "none",
                          incoming[s].st # "none")
  /\ UNCHANGED <<outgoing, closing, connClosed, openCalls, closeCalls, pend,
                 appBytes>>

\* A poll_close that closes at every call.
ShouldCloseAlways(slot) == TRUE

\* poll_close runs connection.close() when the closing slot is None.
ShouldClose(slot) == slot = "none"

\* poll_close, lines 174-183: `matches!(.., crate::ConnectionError { .. })` holds of
\* every value of the type, so each reason closed() reports becomes the error.
CloseResult(reason) == "Err"

\* Connection::poll_close.  fin: the closed() future resolves at this poll.
PollClose(s, fin) ==
  /\ ~panicked[s]
  /\ LET first == ShouldClose(closing[s])
         reason == IF first /\ connClosed[s] = "open"
                   THEN "LocallyClosed" ELSE connClosed[s]
         st0 == IF first THEN "pending" ELSE closing[s]
         ready == st0 = "pending" /\ reason # "open" /\ fin
         result == CASE st0 = "done" -> "panic"
                     [] ready -> CloseResult(reason)
                     [] OTHER -> "Pending"
     IN
     /\ closeCalls' = [closeCalls EXCEPT ![s] = @ + (IF first THEN 1 ELSE 0)]
     /\ connClosed' = [connClosed EXCEPT ![s] = reason]
     /\ closing' = [closing EXCEPT ![s] = IF ready THEN "done" ELSE st0]
     /\ panicked' = [panicked EXCEPT ![s] = (result = "panic")]
     /\ last' = Returned("poll_close", s, 0, result, 0,
                          IF ready THEN reason ELSE "none",
                          closing[s] # "none")
  /\ UNCHANGED <<incoming, outgoing, chans, streams, openCalls, acceptCalls,
                 pend, appBytes>>

\* ------------------------------------------------------------------ Stream
\* Stream::poll_write: the byte goes to the send half (the lock is free: the guard
\* of an earlier call was dropped when that call returned).
StreamWrite(s, c, b) ==
  /\ c \in streams[s]
  /\ connClosed[s] = "open"
  /\ appBytes < MaxAppBytes
  /\ appBytes' = appBytes + 1
  /\ chans' = IF chans[c].opener = s
              THEN [chans EXCEPT ![c].out = Append(@, b), ![c].wrO = Append(@, b)]
              ELSE [chans EXCEPT ![c].back = Append(@, b), ![c].wrA = Append(@, b)]
  /\ UNCHANGED <<incoming, outgoing, closing, panicked, connClosed, streams,
                 openCalls, acceptCalls, closeCalls, last, pend>>

\* Stream::poll_read: the next arrived byte of the receive half, if there is one.
StreamRead(s, c) ==
  /\ c \in streams[s]
  /\ connClosed[s] = "open"
  /\ IF chans[c].opener = s
     THEN /\ chans[c].backArr > chans[c].backPos
          /\ chans' = [chans EXCEPT
                         ![c].rdO = Append(@, chans[c].back[chans[c].backPos + 1]),
                         ![c].backPos = @ + 1]
     ELSE /\ chans[c].outArr > chans[c].outPos
          /\ chans' = [chans EXCEPT
                         ![c].rdA = Append(@, chans[c].out[chans[c].outPos + 1]),
                         ![c].outPos = @ + 1]
  /\ UNCHANGED <<incoming, outgoing, closing, panicked, connClosed, streams,
                 openCalls, acceptCalls, closeCalls, last, pend, appBytes>>

\* Stream::poll_flush on the opener's Stream: all it has written is flushed.
StreamFlush(s, c) ==
  /\ c \in streams[s]
  /\ chans[c].opener = s
  /\ connClosed[s] = "open"
  /\ chans[c].outFlushed < Len(chans[c].out)
  /\ chans' = [chans EXCEPT ![c].outFlushed = Len(chans[c].out)]
  /\ UNCHANGED <<incoming, outgoing, closing, panicked, connClosed, streams,
                 openCalls, acceptCalls, closeCalls, last, pend, appBytes>>

\* ------------------------------------------------- the underlying connection
\* The acceptor learns of channel c, and with it of every channel its peer opened
\* before c.
SeenUpTo(c) ==
  [d \in ChanIds |->
     IF d <= c /\ chans[d].opener = chans[c].opener
     THEN [chans[d] EXCEPT !.seen = TRUE] ELSE chans[d]]

\* The next byte the opener sent on channel c arrives at the acceptor.
DeliverOut(c) ==
  /\ chans[c].outArr < Len(chans[c].out)
  /\ chans' = [SeenUpTo(c) EXCEPT ![c].outArr = @ + 1]
  /\ UNCHANGED <<incoming, outgoing, closing, panicked, connClosed, streams,
                 openCalls, acceptCalls, closeCalls, last, pend, appBytes>>

\* The next byte the acceptor sent on channel c arrives at the opener.
DeliverBack(c) ==
  /\ chans[c].backArr < Len(chans[c].back)
  /\ chans' = [chans EXCEPT ![c].backArr = @ + 1]
  /\ UNCHANGED <<incoming, outgoing, closing, panicked, connClosed, streams,
                 openCalls, acceptCalls, closeCalls, last, pend, appBytes>>

\* A frame of channel c reaches the acceptor ahead of the channel's first byte: a
\* later frame of c overtook the one carrying it, or a frame of a channel opened
\* after c arrived (which opens c implicitly).  accept_bi then yields c with
\* nothing to read yet.
Glimpse(c) ==
  /\ ~chans[c].seen
  /\ \/ Len(chans[c].out) >= 2
     \/ \E d \in ChanIds :
          d > c /\ chans[d].opener = chans[c].opener /\ Len(chans[d].out) >= 1
  /\ chans' = SeenUpTo(c)
  /\ UNCHANGED <<incoming, outgoing, closing, panicked, connClosed, streams,
                 openCalls, acceptCalls, closeCalls, last, pend, appBytes>>

\* The connection is lost (timeout, reset): both sides' closed() report it, unless
\* the side had closed already.
ConnLost ==
  /\ \E s \in Sides : connClosed[s] = "open"
  /\ connClosed' = [s \in Sides |->
                      IF connClosed[s] = "open" THEN "TimedOut" ELSE connClosed[s]]
  /\ UNCHANGED <<incoming, outgoing, closing, panicked, chans, streams,
                 openCalls, acceptCalls, closeCalls, last, pend, appBytes>>

\* The peer's close reaches side s.
CloseArrives(s) ==
  /\ connClosed[s] = "open"
  /\ connClosed[Peer(s)] = "LocallyClosed"
  /\ connClosed' = [connClosed EXCEPT ![s] = "ApplicationClosed"]
  /\ UNCHANGED <<incoming, outgoing, closing, panicked, chans, streams,
                 openCalls, acceptCalls, closeCalls, last, pend, appBytes>>

\* ------------------------------------------- Streams shared by their clones
Clones == {1, 2}     \* the threads that each hold a clone of a Stream

VARIABLES
  locks,          \* per side: the guards held on the Streams' halves, [ch, half, t,
                  \* op]: thread t is inside op on half "send" or "recv" of ch
  actorStopped,   \* per side: the channels whose StreamActor has stopped
  streamCloses,   \* history, per side: conn.close() calls made by Stream::poll_close
  slast           \* history: the Stream call that returned last, [op, side, ch, ret,
                  \* busy, closed, peerClosed]: busy, it found the half
                  \* locked; closed / peerClosed, poll_close had completed on this
                  \* Stream / on the peer's when the call was made

svars == <<locks, actorStopped, streamCloses, slast>>

SInit ==
  /\ locks = [s \in Sides |-> {}]
  /\ actorStopped = [s \in Sides |-> {}]
  /\ streamCloses = [s \in Sides |-> 0]
  /\ slast = [op |-> "none", side |-> "A", ch |-> 0, ret |-> "none",
              busy |-> FALSE, closed |-> FALSE, peerClosed |-> FALSE]

StreamReturned(op, s, c, ret, busy) ==
  [op |-> op, side |-> s, ch |-> c, ret |-> ret, busy |-> busy,
   closed |-> c \in actorStopped[s], peerClosed |-> c \in actorStopped[Peer(s)]]

\* The half of the Stream an operation works on: `self.receiver` or `self.sender`.
HalfOf(op) == IF op = "read" THEN "recv" ELSE "send"

\* A try_lock that always hands out a guard.
TryLockAlways(held, c, half) == TRUE

\* Mutex::try_lock: Ok when no guard of the half exists.
TryLock(held, c, half) == ~\E l \in held : l.ch = c /\ l.half = half

\* Stream::poll_read / poll_write / poll_flush, the `if let Ok(..) = try_lock()`:
\* thread t gets the guard and goes on into the half, or returns Pending.
StreamEnter(s, c, t, op) ==
  /\ c \in streams[s]
  /\ ~\E l \in locks[s] : l.t = t
  /\ op = "write" => appBytes < MaxAppBytes
  /\ IF TryLock(locks[s], c, HalfOf(op))
     THEN /\ locks' = [locks EXCEPT ![s] =
                         @ \cup {[ch |-> c, half |-> HalfOf(op), t |-> t, op |-> op]}]
          /\ UNCHANGED slast
     ELSE /\ slast' = StreamReturned(op, s, c, "Pending", TRUE)
          /\ UNCHANGED locks
  /\ UNCHANGED <<actorStopped, streamCloses>>
  /\ UNCHANGED cvars

Inside(s, c, t, op) ==
  [ch |-> c, half |-> HalfOf(op), t |-> t, op |-> op] \in locks[s]

Leave(s, c, t, op) ==
  locks' = [locks EXCEPT ![s] =
              @ \ {[ch |-> c, half |-> HalfOf(op), t |-> t, op |-> op]}]

\* Stream::poll_read with the guard: the receive half's poll_read.  On a closed
\* connection it fails; bytes that had arrived before may still be handed out
\* (kept: whether the half does so).
StreamReadIn(s, c, t, kept) ==
  /\ Inside(s, c, t, "read")
  /\ Leave(s, c, t, "read")
  /\ LET mine == chans[c].opener = s
         arrived == IF mine THEN chans[c].backArr > chans[c].backPos
                    ELSE chans[c].outArr > chans[c].outPos
         gives == arrived /\ (connClosed[s] = "open" \/ kept)
     IN
     /\ chans' = IF ~gives THEN chans
                 ELSE IF mine
                 THEN [chans EXCEPT
                         ![c].rdO = Append(@, chans[c].back[chans[c].backPos + 1]),
                         ![c].backPos = @ + 1]
                 ELSE [chans EXCEPT
                         ![c].rdA = Append(@, chans[c].out[chans[c].outPos + 1]),
                         ![c].outPos = @ + 1]
     /\ slast' = StreamReturned("read", s, c,
                                CASE gives -> "Ok"
                                  [] connClosed[s] # "open" -> "Err"
                                  [] OTHER -> "Pending",
                                FALSE)
  /\ UNCHANGED <<actorStopped, streamCloses>>
  /\ UNCHANGED <<incoming, outgoing, closing, panicked, connClosed, streams,
                 openCalls, acceptCalls, closeCalls, last, pend, appBytes>>

\* Stream::poll_write with the guard: the send half's poll_write; it fails on a
\* closed connection.
StreamWriteIn(s, c, t, b) ==
  /\ Inside(s, c, t, "write")
  /\ Leave(s, c, t, "write")
  /\ IF connClosed[s] = "open"
     THEN /\ appBytes' = appBytes + 1
          /\ chans' = IF chans[c].opener = s
                      THEN [chans EXCEPT ![c].out = Append(@, b),
                                         ![c].wrO = Append(@, b)]
                      ELSE [chans EXCEPT ![c].back = Append(@, b),
                                         ![c].wrA = Append(@, b)]
          /\ slast' = StreamReturned("write", s, c, "Ok", FALSE)
     ELSE /\ slast' = StreamReturned("write", s, c, "Err", FALSE)
          /\ UNCHANGED <<appBytes, chans>>
  /\ UNCHANGED <<actorStopped, streamCloses>>
  /\ UNCHANGED <<incoming, outgoing, closing, panicked, connClosed, streams,
                 openCalls, acceptCalls, closeCalls, last, pend>>

\* Stream::poll_flush with the guard: the send half's poll_flush.
StreamFlushIn(s, c, t) ==
  /\ Inside(s, c, t, "flush")
  /\ Leave(s, c, t, "flush")
  /\ IF connClosed[s] = "open"
     THEN /\ chans' = IF chans[c].opener = s
                      THEN [chans EXCEPT ![c].outFlushed = Len(chans[c].out)]
                      ELSE chans
          /\ slast' = StreamReturned("flush", s, c, "Ok", FALSE)
     ELSE /\ slast' = StreamReturned("flush", s, c, "Err", FALSE)
          /\ UNCHANGED chans
  /\ UNCHANGED <<actorStopped, streamCloses>>
  /\ UNCHANGED <<incoming, outgoing, closing, panicked, connClosed, streams,
                 openCalls, acceptCalls, closeCalls, last, pend, appBytes>>

\* A StreamActor that answers after it has stopped.
ActorAnswersAlways(stopped, c) == TRUE

\* call_blocking on the Stream's actor succeeds while the actor runs
\* (StreamActor::run leaves its loop once actor_status is Stopped).
ActorAnswers(stopped, c) == c \notin stopped

\* Stream::poll_close, lines 249-263: if the actor hands out the connection, the
\* connection is closed and the actor told to stop; the result is Ready(Ok(())).
StreamPollClose(s, c) ==
  /\ c \in streams[s]
  /\ IF ActorAnswers(actorStopped[s], c)
     THEN /\ connClosed' = [connClosed EXCEPT ![s] =
                              IF @ = "open" THEN "LocallyClosed" ELSE @]
          /\ streamCloses' = [streamCloses EXCEPT ![s] = @ + 1]
          /\ actorStopped' = [actorStopped EXCEPT ![s] = @ \cup {c}]
     ELSE UNCHANGED <<connClosed, streamCloses, actorStopped>>
  /\ slast' = StreamReturned("close", s, c, "Ok", FALSE)
  /\ UNCHANGED locks
  /\ UNCHANGED <<incoming, outgoing, closing, panicked, chans, streams,
                 openCalls, acceptCalls, closeCalls, last, pend, appBytes>>

\* ------------------------------------------- tasks polling a shared Stream
VARIABLES
  cloneTask      \* per thread of side A: the task that uses its clone of the Stream,
                 \* [st, op, ch, reg].  st: "idle" (no operation), "ready" (the
                 \* executor will poll it), "inside" (it is inside poll_* and holds
                 \* the half's guard) or "parked" (its poll returned Pending: the
                 \* executor polls it again only when its waker is called); op, ch:
                 \* the operation it is performing and the Stream's channel; reg:
                 \* where the last poll left the task's waker, "recv" or "none"

wvars == <<cloneTask>>

IdleTask == [st |-> "idle", op |-> "none", ch |-> 0, reg |-> "none"]

WInit == cloneTask = [t \in Clones |-> IdleTask]

\* The task of thread t begins an operation on its clone: .read() / .write() /
\* .flush() of the Stream is awaited and the executor is to poll it.
TaskBegin(s, c, t, op) ==
  /\ cloneTask[t].st = "idle"
  /\ c \in streams[s]
  /\ cloneTask' = [cloneTask EXCEPT ![t] =
                     [st |-> "ready", op |-> op, ch |-> c, reg |-> "none"]]
  /\ UNCHANGED <<cvars, svars>>

\* The waker registration a poll leaves when try_lock failed: lines 222, 234 and
\* 245 return `Poll::Pending` without having touched cx.
BusyWaker == "none"

\* The registration a poll_read of the receive half leaves when it has no byte:
\* the half keeps cx's waker and calls it when data or a close arrives.
RecvWaker == "recv"

\* The executor polls the task: poll_read / poll_write / poll_flush up to its
\* try_lock.  With the guard the task goes on into the half; without it the poll
\* returns Pending and the task is parked.
TaskPoll(s, t) ==
  /\ cloneTask[t].st = "ready"
  /\ StreamEnter(s, cloneTask[t].ch, t, cloneTask[t].op)
  /\ cloneTask' = [cloneTask EXCEPT ![t] =
                     IF TryLock(locks[s], cloneTask[t].ch, HalfOf(cloneTask[t].op))
                     THEN [@ EXCEPT !.st = "inside"]
                     ELSE [@ EXCEPT !.st = "parked", !.reg = BusyWaker]]

\* What the return of the half's poll does to the task: Pending parks it with
\* the waker the half registered, Ready ends the operation.
AfterPoll(task, ret) ==
  IF ret = "Pending" THEN [task EXCEPT !.st = "parked", !.reg = RecvWaker]
  ELSE IdleTask

\* The rest of the task's poll, with the guard: the half's poll_read, poll_write
\* or poll_flush; the guard is dropped at the return.
TaskInside(s, t) ==
  /\ cloneTask[t].st = "inside"
  /\ \/ cloneTask[t].op = "read" /\ StreamReadIn(s, cloneTask[t].ch, t, TRUE)
     \/ cloneTask[t].op = "write"
          /\ StreamWriteIn(s, cloneTask[t].ch, t, 1)
     \/ cloneTask[t].op = "flush" /\ StreamFlushIn(s, cloneTask[t].ch, t)
  /\ cloneTask' = [cloneTask EXCEPT ![t] = AfterPoll(@, slast'.ret)]

\* The bytes of channel c that have arrived at side s and are unread.
Arrived(s, c) ==
  IF chans[c].opener = s THEN chans[c].backArr > chans[c].backPos
  ELSE chans[c].outArr > chans[c].outPos

\* The receive half calls the waker it holds: data has arrived or the connection
\* has closed.  The executor will poll the task again.
Wake(s, t) ==
  /\ cloneTask[t].st = "parked"
  /\ cloneTask[t].reg = "recv"
  /\ Arrived(s, cloneTask[t].ch) \/ connClosed[s] # "open"
  /\ cloneTask' = [cloneTask EXCEPT ![t] = [@ EXCEPT !.st = "ready", !.reg = "none"]]
  /\ UNCHANGED <<cvars, svars>>

\* --------------------------------------------------- two Transports, peers
\* The keypair given to Transport::new: none, an ed25519 keypair (its public key),
\* or a keypair of another type.
NoKeypair == [type |-> "none", key |-> None]
Ed25519Keypair(k) == [type |-> "ed25519", key |-> k]
RsaKeypair == [type |-> "rsa", key |-> None]

Keypairs == {NoKeypair, RsaKeypair} \cup {Ed25519Keypair(k) : k \in NodeIds}

VARIABLES
  ident,         \* per side: its Transport, [st, node, peer]: st is "none", "made" or
                 \* "failed"; node and peer are the Transport's node_id and peer_id
  announced,     \* per side: the listen_addr of the NewAddress event its host got
  futures,       \* per side: the NodeId its pending dial future connects to, or None
  linked,        \* per side: a connection is established that this side dialed
  yielded        \* per side: what its futures gave, [via, peer]: via "dial", the
                 \* dial future; via "incoming", the Connecting of an Incoming event

nvars == <<ident, announced, futures, linked, yielded>>

NoPeerId == <<>>

NInit ==
  /\ ident = [s \in Sides |-> [st |-> "none", node |-> None, peer |-> NoPeerId]]
  /\ announced = [s \in Sides |-> <<>>]
  /\ futures = [s \in Sides |-> None]
  /\ linked = [s \in Sides |-> FALSE]
  /\ yielded = [s \in Sides |-> {}]

\* Transport::new, lines 85-118 and 164-172: with a keypair the secret key and the
\* PeerId come from it (only an ed25519 keypair converts); without one a key is
\* generated (fresh) and the PeerId made from its public key.
TransportNew(s, kp, fresh) ==
  /\ ident[s].st = "none"
  /\ LET key == IF kp.type = "ed25519" THEN kp.key ELSE fresh IN
     /\ \A r \in Sides : ident[r].node # key
     /\ ident' = [ident EXCEPT ![s] =
          IF kp.type \in {"ed25519", "none"}
          THEN [st |-> "made", node |-> key, peer |-> FromPublicKey(AsBytes(key))]
          ELSE [st |-> "failed", node |-> None, peer |-> NoPeerId]]
  /\ UNCHANGED <<announced, futures, linked, yielded>>

\* listen_on, lines 294-303, and poll: the NewAddress event carries the Multiaddr
\* of the Transport's node_id.
PeerListenOn(s) ==
  /\ ident[s].st = "made"
  /\ announced[s] = <<>>
  /\ announced' = [announced EXCEPT ![s] = NodeIdToMultiaddr(ident[s].node)]
  /\ UNCHANGED <<ident, futures, linked, yielded>>

\* dial, lines 344-370: the future will connect to the NodeId of the address.
PeerDial(s, addr) ==
  /\ ident[s].st = "made"
  /\ futures[s] = None /\ ~linked[s]
  /\ MultiaddrToNodeId(addr) # None
  /\ futures' = [futures EXCEPT ![s] = MultiaddrToNodeId(addr)]
  /\ UNCHANGED <<ident, announced, linked, yielded>>

\* A connection that reports the side's own NodeId as the remote one.
OwnNodeId(s) == ident[s].node

\* conn.remote_node_id(): the NodeId the other end of the connection proved to own.
RemoteNodeId(s) == ident[Peer(s)].node

\* The dial future, lines 376-392: endpoint.connect reaches the peer if the NodeId
\* is the peer's and its router accepts; the future yields the PeerId of the
\* connection's remote NodeId.  Otherwise the connect fails and so does the future.
PeerConnect(s) ==
  /\ futures[s] # None
  /\ futures' = [futures EXCEPT ![s] = None]
  /\ IF ident[Peer(s)].node = futures[s] /\ announced[Peer(s)] # <<>>
     THEN /\ linked' = [linked EXCEPT ![s] = TRUE]
          /\ yielded' = [yielded EXCEPT ![s] =
               @ \cup {[via |-> "dial", peer |-> NodeIdToPeerId(RemoteNodeId(s))]}]
     ELSE UNCHANGED <<linked, yielded>>
  /\ UNCHANGED <<ident, announced>>

\* Protocol::accept, lines 417-423 and 457-465, and the Connecting of the Incoming
\* event: it yields the PeerId of the connection's remote NodeId.
PeerAccept(s) ==
  /\ linked[Peer(s)]
  /\ ~\E y \in yielded[s] : y.via = "incoming"
  /\ yielded' = [yielded EXCEPT ![s] =
       @ \cup {[via |-> "incoming", peer |-> NodeIdToPeerId(RemoteNodeId(s))]}]
  /\ UNCHANGED <<ident, announced, futures, linked>>

\* ------------------------------------------------- the helper's conversions
MaxConv == 4         \* conversions applied one after the other to an input

VARIABLES
  chain          \* an input and the values the helper's conversions made of it, one
                 \* from the other: [kind, by, node, pid, addr]

hvars == <<chain>>

HInit == chain = <<>>

NodeV(by, n) == [kind |-> "node", by |-> by, node |-> n, pid |-> <<>>, addr |-> <<>>]
PeerV(by, p) == [kind |-> "peer", by |-> by, node |-> None, pid |-> p, addr |-> <<>>]
AddrV(by, a) == [kind |-> "addr", by |-> by, node |-> None, pid |-> <<>>, addr |-> a]
NoneV(by) == [kind |-> "none", by |-> by, node |-> None, pid |-> <<>>, addr |-> <<>>]

\* An Option<NodeId> as a value of the chain.
OptNodeV(by, r) == IF r = None THEN NoneV(by) ELSE NodeV(by, r)

ConvInputs ==
  {NodeV("input", n) : n \in NodeIds} \cup {PeerV("input", p) : p \in PeerIds}
    \cup {AddrV("input", a) : a \in DialAddrs}

Latest == chain[Len(chain)]

Convert(kind, v) ==
  /\ chain # <<>>
  /\ Len(chain) <= MaxConv
  /\ Latest.kind = kind
  /\ chain' = Append(chain, v)

ApplyNodeIdToPeerId ==
  Convert("node", PeerV("node_id_to_peerid", NodeIdToPeerId(Latest.node)))

ApplyPeerIdToNodeId ==
  Convert("peer", OptNodeV("peer_id_to_node_id", PeerIdToNodeId(Latest.pid)))

ApplyNodeIdToMultiaddr ==
  Convert("node", AddrV("iroh_node_id_to_multiaddr", NodeIdToMultiaddr(Latest.node)))

ApplyMultiaddrToNodeId ==
  Convert("addr", OptNodeV("multiaddr_to_iroh_node_id", MultiaddrToNodeId(Latest.addr)))

\* ------------------------------------------------------ the specifications
xvars == <<pvars, dvars, svars, wvars, hvars, nvars>>

vars == <<tvars, cvars, xvars>>

Init == TInit /\ CInit /\ PInit /\ DInit /\ SInit /\ WInit /\ HInit /\ NInit

\* The Transport, its actor and its accept tasks.
Next ==
  \/ ActorRun /\ UNCHANGED <<cvars, xvars>>
  \/ \E id \in ListenerIds : ListenOn(id) /\ UNCHANGED <<cvars, xvars>>
  \/ ListenOnChecked /\ UNCHANGED <<cvars, xvars>>
  \/ ListenOnSpawn /\ UNCHANGED <<cvars, xvars>>
  \/ ListenOnRegister /\ UNCHANGED <<cvars, xvars>>
  \/ ListenOnEmit /\ UNCHANGED <<cvars, xvars>>
  \/ \E id \in ListenerIds : RemoveListener(id) /\ UNCHANGED <<cvars, xvars>>
  \/ RemoveListenerChecked /\ UNCHANGED <<cvars, xvars>>
  \/ RemoveListenerDone /\ UNCHANGED <<cvars, xvars>>
  \/ Poll /\ UNCHANGED <<cvars, dvars, svars, wvars, hvars, nvars>>
  \/ \E k \in Tasks, idOk \in BOOLEAN : AcceptStart(k, idOk) /\ UNCHANGED <<cvars, xvars>>
  \/ \E k \in Tasks : AcceptAskListener(k) /\ UNCHANGED <<cvars, xvars>>
  \/ \E k \in Tasks : AcceptSend(k) /\ UNCHANGED <<cvars, xvars>>
  \/ \E k \in Tasks : AcceptDone(k) /\ UNCHANGED <<cvars, xvars>>

Spec == Init /\ [][Next]_vars

\* The host's calls with an actor whose task may end: listen_on, remove_listener,
\* dial and poll.
HostNext ==
  \/ ActorRun /\ UNCHANGED <<cvars, xvars>>
  \/ ActorStop /\ UNCHANGED <<cvars, xvars>>
  \/ \E id \in ListenerIds : ListenOn(id) /\ UNCHANGED <<cvars, xvars>>
  \/ ListenOnChecked /\ UNCHANGED <<cvars, xvars>>
  \/ ListenOnSpawn /\ UNCHANGED <<cvars, xvars>>
  \/ ListenOnRegister /\ UNCHANGED <<cvars, xvars>>
  \/ ListenOnEmit /\ UNCHANGED <<cvars, xvars>>
  \/ \E id \in ListenerIds : RemoveListener(id) /\ UNCHANGED <<cvars, xvars>>
  \/ RemoveListenerChecked /\ UNCHANGED <<cvars, xvars>>
  \/ RemoveListenerDone /\ UNCHANGED <<cvars, xvars>>
  \/ Poll /\ UNCHANGED <<cvars, dvars, svars, wvars, hvars, nvars>>
  \/ \E addr \in DialAddrs : Dial(addr) /\ UNCHANGED <<cvars, pvars, svars, wvars, hvars, nvars>>
  \/ DialChecked /\ UNCHANGED <<cvars, pvars, svars, wvars, hvars, nvars>>

HostSpec == Init /\ [][HostNext]_vars

\* Dialing: the host calls dial, and the futures it got are polled while their
\* connects resolve, fail or neither, and time passes.
DialNext ==
  \/ ActorRun /\ UNCHANGED <<cvars, xvars>>
  \/ \E addr \in DialAddrs : Dial(addr) /\ UNCHANGED <<cvars, pvars, svars, wvars, hvars, nvars>>
  \/ DialChecked /\ UNCHANGED <<cvars, pvars, svars, wvars, hvars, nvars>>
  \/ \E i \in 1..Len(dials), outcome \in {"pending", "connected", "failed"} :
       PollDial(i, outcome) /\ UNCHANGED <<cvars, pvars, svars, wvars, hvars, nvars>>
  \/ \E i \in 1..Len(dials) : TimeoutElapses(i) /\ UNCHANGED <<cvars, pvars, svars, wvars, hvars, nvars>>

DialSpec == Init /\ [][DialNext]_vars

\* Dialing on a Transport that listens: the host calls listen_on and dial, polls
\* the Transport and the dial futures, whose connects succeed, fail or neither.
RedialNext ==
  \/ ActorRun /\ UNCHANGED <<cvars, xvars>>
  \/ \E id \in ListenerIds : ListenOn(id) /\ UNCHANGED <<cvars, xvars>>
  \/ ListenOnChecked /\ UNCHANGED <<cvars, xvars>>
  \/ ListenOnSpawn /\ UNCHANGED <<cvars, xvars>>
  \/ ListenOnRegister /\ UNCHANGED <<cvars, xvars>>
  \/ ListenOnEmit /\ UNCHANGED <<cvars, xvars>>
  \/ Poll /\ UNCHANGED <<cvars, dvars, svars, wvars, hvars, nvars>>
  \/ \E addr \in DialAddrs : Dial(addr) /\ UNCHANGED <<cvars, pvars, svars, wvars, hvars, nvars>>
  \/ DialChecked /\ UNCHANGED <<cvars, pvars, svars, wvars, hvars, nvars>>
  \/ \E i \in 1..Len(dials), outcome \in {"pending", "connected", "failed"} :
       PollDial(i, outcome) /\ UNCHANGED <<cvars, pvars, svars, wvars, hvars, nvars>>

RedialSpec == Init /\ [][RedialNext]_vars

\* The helper's conversions, applied one after the other to a NodeId, a PeerId or
\* a Multiaddr.
ConvInit ==
  /\ TInit /\ CInit /\ PInit /\ DInit /\ SInit /\ WInit /\ NInit
  /\ chain \in {<<x>> : x \in ConvInputs}

ConvNext ==
  \/ ApplyNodeIdToPeerId /\ UNCHANGED <<tvars, cvars, pvars, dvars, svars, wvars, nvars>>
  \/ ApplyPeerIdToNodeId /\ UNCHANGED <<tvars, cvars, pvars, dvars, svars, wvars, nvars>>
  \/ ApplyNodeIdToMultiaddr /\ UNCHANGED <<tvars, cvars, pvars, dvars, svars, wvars, nvars>>
  \/ ApplyMultiaddrToNodeId /\ UNCHANGED <<tvars, cvars, pvars, dvars, svars, wvars, nvars>>

ConvSpec == ConvInit /\ [][ConvNext]_vars

\* Two Transports: each is made with or without a keypair, listens, and dials the
\* address the other announced, or another address.
PeerNext ==
  \/ \E s \in Sides, kp \in Keypairs, fresh \in NodeIds :
       TransportNew(s, kp, fresh) /\ UNCHANGED <<tvars, cvars, pvars, dvars, svars, wvars, hvars>>
  \/ \E s \in Sides :
       PeerListenOn(s) /\ UNCHANGED <<tvars, cvars, pvars, dvars, svars, wvars, hvars>>
  \/ \E s \in Sides : \E addr \in DialAddrs \cup {announced[Peer(s)]} :
       PeerDial(s, addr) /\ UNCHANGED <<tvars, cvars, pvars, dvars, svars, wvars, hvars>>
  \/ \E s \in Sides :
       PeerConnect(s) /\ UNCHANGED <<tvars, cvars, pvars, dvars, svars, wvars, hvars>>
  \/ \E s \in Sides :
       PeerAccept(s) /\ UNCHANGED <<tvars, cvars, pvars, dvars, svars, wvars, hvars>>

PeerSpec == Init /\ [][PeerNext]_vars

\* Opening and accepting substreams over one connection: side A's Connection opens
\* them, polled by two callers, side B's accepts them; the connection delivers the
\* handshake bytes, or is lost.
Opener == "A"
Acceptor == "B"

ConnNext ==
  \/ \E p \in Pollers, room \in BOOLEAN, credit \in BOOLEAN :
       PollOutbound(Opener, p, room, credit) /\ UNCHANGED <<tvars, xvars>>
  \/ PollInbound(Acceptor) /\ UNCHANGED <<tvars, xvars>>
  \/ \E c \in ChanIds : DeliverOut(c) /\ UNCHANGED <<tvars, xvars>>
  \/ \E c \in ChanIds : Glimpse(c) /\ UNCHANGED <<tvars, xvars>>
  \/ ConnLost /\ UNCHANGED <<tvars, xvars>>

ConnSpec == Init /\ [][ConnNext]_vars

\* Using a substream: A opens one, B accepts it, and the applications on both
\* sides write, flush and read their Streams.
DataNext ==
  \/ \E room \in {FALSE, chans = <<>>}, credit \in BOOLEAN :
       PollOutbound(Opener, 1, room, credit) /\ UNCHANGED <<tvars, xvars>>
  \/ PollInbound(Acceptor) /\ UNCHANGED <<tvars, xvars>>
  \/ \E s \in Sides, c \in ChanIds, b \in Bytes :
       StreamWrite(s, c, b) /\ UNCHANGED <<tvars, xvars>>
  \/ \E s \in Sides, c \in ChanIds : StreamRead(s, c) /\ UNCHANGED <<tvars, xvars>>
  \/ \E s \in Sides, c \in ChanIds : StreamFlush(s, c) /\ UNCHANGED <<tvars, xvars>>
  \/ \E c \in ChanIds : DeliverOut(c) /\ UNCHANGED <<tvars, xvars>>
  \/ \E c \in ChanIds : DeliverBack(c) /\ UNCHANGED <<tvars, xvars>>
  \/ \E c \in ChanIds : Glimpse(c) /\ UNCHANGED <<tvars, xvars>>

DataSpec == Init /\ [][DataNext]_vars

\* A Stream shared by clones: A opens one substream, and on A's side two threads
\* hold clones of the Stream and read, write, flush and close it; a close of the
\* connection reaches the peer.
StreamNext ==
  \/ PollOutbound(Opener, 1, chans = <<>>, TRUE) /\ UNCHANGED <<tvars, xvars>>
  \/ \E c \in ChanIds, t \in Clones, op \in {"read", "write", "flush"} :
       StreamEnter(Opener, c, t, op) /\ UNCHANGED <<tvars, pvars, dvars, wvars, hvars, nvars>>
  \/ \E c \in ChanIds, t \in Clones, kept \in BOOLEAN :
       StreamReadIn(Opener, c, t, kept) /\ UNCHANGED <<tvars, pvars, dvars, wvars, hvars, nvars>>
  \/ \E c \in ChanIds, t \in Clones, b \in Bytes :
       StreamWriteIn(Opener, c, t, b) /\ UNCHANGED <<tvars, pvars, dvars, wvars, hvars, nvars>>
  \/ \E c \in ChanIds, t \in Clones :
       StreamFlushIn(Opener, c, t) /\ UNCHANGED <<tvars, pvars, dvars, wvars, hvars, nvars>>
  \/ \E c \in ChanIds : StreamPollClose(Opener, c) /\ UNCHANGED <<tvars, pvars, dvars, wvars, hvars, nvars>>
  \/ CloseArrives(Acceptor) /\ UNCHANGED <<tvars, xvars>>

StreamSpec == Init /\ [][StreamNext]_vars

\* A Stream and its peer: A opens one substream and B accepts it; A reads, writes
\* and closes its Stream, B writes and closes its own; bytes reach a side while
\* its connection is open, and a close of the connection reaches the peer.
HalfCloseNext ==
  \/ PollOutbound(Opener, 1, chans = <<>>, TRUE) /\ UNCHANGED <<tvars, xvars>>
  \/ PollInbound(Acceptor) /\ UNCHANGED <<tvars, xvars>>
  \/ \E c \in ChanIds, op \in {"read", "write"} :
       StreamEnter(Opener, c, 1, op) /\ UNCHANGED <<tvars, pvars, dvars, wvars, hvars, nvars>>
  \/ \E c \in ChanIds :
       StreamEnter(Acceptor, c, 1, "write") /\ UNCHANGED <<tvars, pvars, dvars, wvars, hvars, nvars>>
  \/ \E c \in ChanIds, kept \in BOOLEAN :
       StreamReadIn(Opener, c, 1, kept) /\ UNCHANGED <<tvars, pvars, dvars, wvars, hvars, nvars>>
  \/ \E s \in Sides, c \in ChanIds :
       StreamWriteIn(s, c, 1, 1) /\ UNCHANGED <<tvars, pvars, dvars, wvars, hvars, nvars>>
  \/ \E s \in Sides, c \in ChanIds :
       StreamPollClose(s, c) /\ UNCHANGED <<tvars, pvars, dvars, wvars, hvars, nvars>>
  \/ \E c \in ChanIds :
       connClosed[Acceptor] = "open" /\ DeliverOut(c) /\ UNCHANGED <<tvars, xvars>>
  \/ \E c \in ChanIds :
       connClosed[Opener] = "open" /\ DeliverBack(c) /\ UNCHANGED <<tvars, xvars>>
  \/ \E s \in Sides : CloseArrives(s) /\ UNCHANGED <<tvars, xvars>>

HalfCloseSpec == Init /\ [][HalfCloseNext]_vars

\* Both directions of one connection: each side opens substreams and accepts
\* the peer's, over a connection that always has send credit and whose stream
\* limit is MaxChans.
DuplexNext ==
  \/ \E s \in Sides : PollOutbound(s, 1, TRUE, TRUE) /\ UNCHANGED <<tvars, xvars>>
  \/ \E s \in Sides : PollInbound(s) /\ UNCHANGED <<tvars, xvars>>
  \/ \E c \in ChanIds : DeliverOut(c) /\ UNCHANGED <<tvars, xvars>>
  \/ \E c \in ChanIds : Glimpse(c) /\ UNCHANGED <<tvars, xvars>>

DuplexSpec == Init /\ [][DuplexNext]_vars

\* Tasks sharing a Stream: A opens one substream and B accepts it; on A's side
\* each thread runs a task that reads, writes and flushes through its clone of
\* the Stream, polled by the executor and parked when a poll returns Pending;
\* B writes to its Stream.  Nobody closes anything.
TaskStep(t) ==
  \/ TaskPoll(Opener, t) /\ UNCHANGED <<tvars, pvars, dvars, hvars, nvars>>
  \/ TaskInside(Opener, t) /\ UNCHANGED <<tvars, pvars, dvars, hvars, nvars>>
  \/ Wake(Opener, t) /\ UNCHANGED <<tvars, pvars, dvars, hvars, nvars>>

Network ==
  \/ streams[Acceptor] = {} /\ PollInbound(Acceptor) /\ UNCHANGED <<tvars, xvars>>
  \/ \E c \in ChanIds : DeliverOut(c) /\ UNCHANGED <<tvars, xvars>>
  \/ \E c \in ChanIds : DeliverBack(c) /\ UNCHANGED <<tvars, xvars>>

WakeNext ==
  \/ chans = <<>> /\ PollOutbound(Opener, 1, TRUE, TRUE) /\ UNCHANGED <<tvars, xvars>>
  \/ \E c \in ChanIds : StreamWrite(Acceptor, c, 1) /\ UNCHANGED <<tvars, xvars>>
  \/ \E c \in ChanIds, t \in Clones, op \in {"read", "write", "flush"} :
       TaskBegin(Opener, c, t, op) /\ UNCHANGED <<tvars, pvars, dvars, hvars, nvars>>
  \/ \E t \in Clones : TaskStep(t)
  \/ Network

WakeSpec == Init /\ [][WakeNext]_vars

\* The scheduling the runtime gives: a task that is ready is polled and a poll
\* that has begun returns (the worker threads run), a waker whose event has
\* happened is called, and the network delivers what was sent.  The tasks get
\* strong fairness: a task whose step is possible again and again takes it, even
\* if the other task takes the lock in between.  Whether the applications begin
\* further operations is up to them.
WakeFairSpec ==
  /\ WakeSpec
  /\ \A t \in Clones : SF_vars(TaskStep(t))
  /\ WF_vars(Network)

\* Sibling substreams: A opens substreams over its Connection, reads and writes
\* their Streams and closes them one by one.
SiblingNext ==
  \/ PollOutbound(Opener, 1, TRUE, TRUE) /\ UNCHANGED <<tvars, xvars>>
  \/ \E c \in ChanIds, op \in {"read", "write"} :
       StreamEnter(Opener, c, 1, op) /\ UNCHANGED <<tvars, pvars, dvars, wvars, hvars, nvars>>
  \/ \E c \in ChanIds, kept \in BOOLEAN :
       StreamReadIn(Opener, c, 1, kept) /\ UNCHANGED <<tvars, pvars, dvars, wvars, hvars, nvars>>
  \/ \E c \in ChanIds, b \in Bytes :
       StreamWriteIn(Opener, c, 1, b) /\ UNCHANGED <<tvars, pvars, dvars, wvars, hvars, nvars>>
  \/ \E c \in ChanIds :
       StreamPollClose(Opener, c) /\ UNCHANGED <<tvars, pvars, dvars, wvars, hvars, nvars>>

SiblingSpec == Init /\ [][SiblingNext]_vars

\* Closing: either side's Connection is closed and polled for it; the connection
\* may be lost, and a side's close reaches its peer.
CloseNext ==
  \/ \E s \in Sides, fin \in BOOLEAN : PollClose(s, fin) /\ UNCHANGED <<tvars, xvars>>
  \/ ConnLost /\ UNCHANGED <<tvars, xvars>>
  \/ \E s \in Sides : CloseArrives(s) /\ UNCHANGED <<tvars, xvars>>

CloseSpec == Init /\ [][CloseNext]_vars

\* ------------------------------------------------------------ C1
\* The events sent since a call was made (its log field) include e.
SentSince(log, e) == \E i \in (log + 1)..Len(sentLog) : sentLog[i] = e

\* C1: a listen_on made while a listener is registered returns a Listen error; the
\* listen_on that follows a remove_listener which returned true returns Ok and has
\* sent a NewAddress event carrying its own listener id.
C1_ListenAgainAfterRemove ==
  /\ \A i \in 1..Len(hist) :
       (hist[i].op = "listen_on" /\ hist[i].reg # None)
         => hist[i].ret = "ListenErr"
  /\ \A i \in 2..Len(hist) :
       (/\ hist[i].op = "listen_on"
        /\ hist[i - 1].op = "remove_listener"
        /\ hist[i - 1].ret = "true")
         => /\ hist[i].ret = "Ok"
            /\ SentSince(hist[i].log, NewAddress(hist[i].id))

\* C1's case: a second listen_on was refused, remove_listener of the registered id
\* returned true, and the listen_on after it succeeded with another id.
C1_Witness ==
  \E i \in 1..Len(hist) :
    /\ i + 2 <= Len(hist)
    /\ hist[i].op = "listen_on" /\ hist[i].ret = "ListenErr"
    /\ hist[i + 1].op = "remove_listener" /\ hist[i + 1].ret = "true"
    /\ hist[i + 1].id = hist[i].reg
    /\ hist[i + 2].op = "listen_on" /\ hist[i + 2].ret = "Ok"
    /\ hist[i + 2].id # hist[i + 1].id

\* ------------------------------------------------------------ C2
\* C2: whenever an Incoming event is enqueued, a listener is registered in the
\* actor at that moment and the event carries that listener's id.
C2_IncomingCarriesRegisteredId ==
  [][(/\ Len(sentLog') = Len(sentLog) + 1
      /\ sentLog'[Len(sentLog')].type = "Incoming")
       => (/\ listener_id # None
           /\ sentLog'[Len(sentLog')].listener_id = listener_id)]_tvars

\* ------------------------------------------------------------ C3
\* C3: after a poll_inbound or poll_outbound that returned an error, the direction's
\* cached future slot is empty, so the next poll of the direction starts afresh.
C3_ErrorClearsSlot ==
  /\ (last.op = "poll_outbound" /\ last.ret = "Err")
       => outgoing[last.side] = NoFut
  /\ (last.op = "poll_inbound" /\ last.ret = "Err")
       => incoming[last.side] = NoFut

\* ------------------------------------------------------------ C4
\* The handshake bytes written on, and read from, a channel.
HandshakesWritten(c) == Len(chans[c].out) - Len(chans[c].wrO)
HandshakesRead(c) == chans[c].outPos - Len(chans[c].rdA)

OpenedBy(s) == {c \in ChanIds : chans[c].opener = s}
AcceptedBy(s) == {c \in ChanIds : chans[c].opener # s /\ chans[c].taken}
InSlot(fut) == IF fut.st = "none" THEN 0 ELSE 1

C5_BothPollersSameSubstream ==
  [][\A p \in Pollers :
       (/\ pend[Opener][p] # 0
        /\ pend'[Opener][p] = 0
        /\ streams'[Opener] # streams[Opener])
         => openCalls'[Opener] = pend[Opener][p]]_vars

\* C5: while an open is in the slot no poll starts another one; its Substream is
\* returned once, by the poll that empties the slot; a poller that was waiting for
\* an operation whose Substream went to the other poller is served by a later open.
C5_OneOpenServesOnePoller ==
  [][/\ outgoing[Opener].st \in {"chan", "byte"}
          => openCalls'[Opener] = openCalls[Opener]
     /\ streams'[Opener] # streams[Opener]
          => /\ last'.ch \notin streams[Opener]
             /\ streams'[Opener] = streams[Opener] \cup {last'.ch}
             /\ Len(chans'[last'.ch].out) >= 1
             /\ outgoing'[Opener] = NoFut
     /\ \A p \in Pollers :
          (/\ pend[Opener][p] # 0
           /\ pend'[Opener][p] = 0
           /\ streams'[Opener] # streams[Opener]
           /\ openCalls'[Opener] # pend[Opener][p])
            => /\ openCalls'[Opener] > pend[Opener][p]
               /\ Cardinality(streams[Opener]) >= pend[Opener][p]]_vars

\* C5's case: both pollers polled the first open before it resolved; its Substream
\* went to one of them, and the other is still waiting for it.
C5_Witness ==
  /\ last.op = "poll_outbound" /\ last.ret = "Ok" /\ last.cached /\ last.ch = 1
  /\ \E p \in Pollers : p # last.poller /\ pend[Opener][p] = 1
  /\ outgoing[Opener] = NoFut
  /\ openCalls[Opener] = 1

\* ------------------------------------------------------------ C6
\* C6: every Substream poll_inbound has yielded is a channel the peer opened and on
\* which at least one byte has arrived; a poll_inbound made on an open connection
\* while no byte of a peer's channel has arrived returned Pending.
C6_NoSubstreamBeforeHandshake ==
  /\ \A s \in Sides : \A c \in streams[s] :
       chans[c].opener # s
         => /\ Len(chans[c].out) >= 1
            /\ chans[c].outArr >= 1
  /\ (/\ last.op = "poll_inbound"
      /\ connClosed[last.side] = "open"
      /\ \A c \in ChanIds :
           chans[c].opener # last.side => chans[c].outArr = 0)
       => last.ret = "Pending"

\* C6's case: the acceptor was handed a channel of which no byte has arrived, and
\* its poll_inbound returned Pending.
C6_Witness ==
  /\ last.op = "poll_inbound" /\ last.ret = "Pending"
  /\ incoming[Acceptor].st = "byte"
  /\ chans[incoming[Acceptor].ch].outArr = 0
  /\ connClosed[Acceptor] = "open"

IsPrefix(a, b) == Len(a) <= Len(b) /\ \A i \in 1..Len(a) : a[i] = b[i]

C9_CloseCalledOnce ==
  \A s \in Sides : closeCalls[s] = IF closing[s] = "none" THEN 0 ELSE 1

\* C9's case: a poll_close that found the closing future in the slot.
C9_Witness ==
  /\ last.op = "poll_close" /\ last.cached
  /\ closeCalls[last.side] = 1

\* ------------------------------------------------------------ C10
\* C10: a poll_close that resolved returned Ok when closed() reported the close the
\* Connection itself had requested, and an error for any other reason.
C10_CloseResultByReason ==
  (last.op = "poll_close" /\ last.reason # "none")
    => last.ret = IF last.reason = "LocallyClosed" THEN "Ok" ELSE "Err"

\* ------------------------------------------------------------ C16
\* C16: the events sent so far are those Transport::poll has returned, in the order
\* they were sent, followed by those still queued; a poll returned Pending exactly
\* when it found the queue empty, and otherwise the oldest event of the queue.
C16_PollDeliversInOrder ==
  /\ sentLog = delivered \o events
  /\ lastPoll.polled
       => IF lastPoll.queue = <<>>
          THEN lastPoll.ret = PollPending
          ELSE lastPoll.ret = PollReady(Head(lastPoll.queue))

\* C16's case: a NewAddress from listen_on and an Incoming from the actor were
\* returned in the order they were sent, and the next poll found nothing.
C16_Witness ==
  /\ Len(delivered) >= 2
  /\ delivered[1].type = "NewAddress"
  /\ delivered[2].type = "Incoming"
  /\ lastPoll.polled /\ lastPoll.ret = PollPending
  /\ events = <<>>

\* ------------------------------------------------------------ C14
\* C14: a remove_listener returns true exactly when its id is the one registered
\* when it was called, and the listener is then cleared; when it returns false the
\* registered id is the one it found.  While the call runs the router is not
\* touched, the listener id is only ever cleared, and that by a matching call, and
\* nothing but the actor's Incoming events is sent to the event queue.
C14_RemoveListenerExactlyOnMatch ==
  [][/\ (Len(hist') = Len(hist) + 1 /\ hist'[Len(hist')].op = "remove_listener")
          => LET h == hist'[Len(hist')] IN
             /\ h.ret = "true" <=> (h.reg # None /\ h.reg = h.id)
             /\ h.ret = "true" => listener_id' = None
             /\ h.ret = "false" => listener_id' = h.reg
     /\ tcall.op = "remove_listener"
          => /\ router' = router
             /\ listener_id' # listener_id
                  => (listener_id' = None /\ tcall.reg = tcall.id)
             /\ sentLog' # sentLog
                  => sentLog'[Len(sentLog')].type = "Incoming"
             /\ events' # events
                  => events' = Append(events, events'[Len(events')])]_vars

\* C14's case: with a listener registered, a remove_listener of another id
\* returned false and one of the registered id returned true.
C14_Witness ==
  \E i, j \in 1..Len(hist) :
    /\ hist[i].op = "remove_listener" /\ hist[i].ret = "false"
    /\ hist[i].reg # None /\ hist[i].reg # hist[i].id
    /\ hist[j].op = "remove_listener" /\ hist[j].ret = "true"

\* ------------------------------------------------------------ C15
\* C15: an accept task that was answered None for the listener id returns the
\* error at once, sending nothing to the actor and no event; a task that has not
\* got past that point has sent no event.
C15_AcceptWithoutListenerFails ==
  [][\A k \in Tasks :
       /\ (acc[k].pc = "lid" /\ reply[k] = Ok(None) /\ acc'[k] # acc[k])
            => /\ acc'[k].pc = "nolistener"
               /\ mailbox' = mailbox
               /\ events' = events
               /\ sentLog' = sentLog
       /\ (acc[k].pc = "nolistener")
            => /\ acc'[k] = acc[k]
               /\ \A i \in 1..Len(mailbox') : mailbox'[i].from # k]_vars

\* C15's case: a router was spawned, the accept task found no listener registered
\* and returned the error.
C15_Witness ==
  \E k \in Tasks :
    /\ acc[k].pc = "nolistener"
    /\ spawned >= 1
    /\ \A i \in 1..Len(sentLog) : sentLog[i].type # "Incoming"

\* ------------------------------------------------------------ C11
\* C11: a poll of a dial future made after the Transport's timeout has passed
\* since its connect began does not return Pending.
C11_DialTimesOut ==
  (dlast.polled /\ dlast.late) => dlast.ret # "Pending"

\* ------------------------------------------------------------ C12
\* C12: a dial of an address that gives no NodeId returns the Dial error in the
\* step that makes the call: nothing is sent to the actor, no future is created and
\* no connect is made; every future dial has returned has a NodeId to connect to.
C12_DialWithoutNodeIdFailsAtOnce ==
  [][/\ (/\ Len(hist') = Len(hist) + 1
         /\ hist'[Len(hist')].op = "dial"
         /\ hist'[Len(hist')].id = None)
          => /\ tpc = "idle" /\ tpc' = "idle"
             /\ hist'[Len(hist')].ret = "DialErr"
             /\ mailbox' = mailbox
             /\ reply' = reply
             /\ dials' = dials
             /\ connects' = connects
     /\ \A i \in 1..Len(dials) : dials[i].node # None]_vars

\* C12's case: a dial without NodeId returned the Dial error with nothing sent to
\* the actor, after a dial with one had returned its future.
C12_Witness ==
  /\ Len(hist) >= 2
  /\ hist[Len(hist)].op = "dial" /\ hist[Len(hist)].id = None
  /\ hist[Len(hist)].ret = "DialErr"
  /\ hist[1].op = "dial" /\ hist[1].ret = "Ok"
  /\ mailbox = <<>> /\ Len(dials) = 1

\* ------------------------------------------------------------ C13
\* The call listen_on is waiting for has failed, or has told it of a listener.
ListenFails ==
  /\ tpc \in {"L_id", "L_ep", "L_set"}
  /\ reply[Host] # NoReply
  /\ \/ ~IsOk(reply[Host])
     \/ (tpc = "L_id" /\ reply[Host][2] # None)

\* C13: when a call of listen_on has failed or a listener is registered already,
\* listen_on returns the Listen error at its next step; whenever it returns that
\* error it has sent no event, and the actor's listener id and router are those it
\* found.
C13_FailedListenChangesNothing ==
  [][/\ (ListenFails /\ tpc' # tpc)
          => /\ tpc' = "idle"
             /\ hist' = Append(hist, [tcall EXCEPT !.ret = "ListenErr"])
     /\ (/\ Len(hist') = Len(hist) + 1
         /\ hist'[Len(hist')].op = "listen_on"
         /\ hist'[Len(hist')].ret = "ListenErr")
          => /\ Len(sentLog') = hist'[Len(hist')].log
             /\ events' = events
             /\ listener_id' = hist'[Len(hist')].reg
             /\ router' = hist'[Len(hist')].rt]_vars

\* C13's case: one listen_on failed because a listener was registered, another
\* because the actor's task ended after the router had been spawned.
C13_Witness ==
  \E i, j \in 1..Len(hist) :
    /\ hist[i].op = "listen_on" /\ hist[i].ret = "ListenErr"
    /\ hist[i].reg # None /\ hist[i].alive
    /\ hist[j].op = "listen_on" /\ hist[j].ret = "ListenErr"
    /\ hist[j].reg = None /\ hist[j].alive
    /\ spawned = 2

\* ------------------------------------------------------------ C20
\* C20: a call made after the actor's task had ended returns the Listen error
\* (listen_on), the Dial error with no future (dial) or false (remove_listener),
\* having sent no event; while it runs the host always has an answer to go on with.
C20_CallsFailWithoutActor ==
  [][/\ (Len(hist') = Len(hist) + 1 /\ ~hist'[Len(hist')].alive)
          => LET h == hist'[Len(hist')] IN
             /\ h.op = "listen_on" => h.ret = "ListenErr"
             /\ h.op = "dial" => (h.ret = "DialErr" /\ dials' = dials)
             /\ h.op = "remove_listener" => h.ret = "false"
             /\ Len(sentLog') = h.log
     /\ (tpc' # "idle" /\ ~tcall'.alive) => reply'[Host] # NoReply]_vars

\* C20's case: after the actor's task ended, a listen_on, a dial of an address with
\* a NodeId and a remove_listener have all returned.
C20_Witness ==
  \E i, j, k \in 1..Len(hist) :
    /\ ~hist[i].alive /\ hist[i].op = "listen_on"
    /\ ~hist[j].alive /\ hist[j].op = "dial" /\ hist[j].id # None
    /\ ~hist[k].alive /\ hist[k].op = "remove_listener" /\ hist[k].reg # None
    /\ hist[k].id = hist[k].reg

\* C17: after a Stream's poll_close has completed, a write on that Stream fails
\* with an error, and a read on it does not fail while the peer has not closed its
\* own Stream: it keeps returning the peer's data.
C17_WriteFailsReadsContinue ==
  /\ (slast.op = "write" /\ slast.closed /\ ~slast.busy) => slast.ret = "Err"
  /\ (slast.op = "read" /\ slast.closed /\ ~slast.peerClosed /\ ~slast.busy)
       => slast.ret # "Err"

\* C18: every poll_close of a Stream returns Ready(Ok(())), and a poll_close of a
\* Stream that was closed before changes neither the channels, nor the
\* connection (no further conn.close()), nor the actor's status, nor the guards.
C18_CloseIdempotent ==
  [][(slast'.op = "close" /\ slast' # slast)
       => /\ slast'.ret = "Ok"
          /\ slast'.closed => /\ chans' = chans
                              /\ connClosed' = connClosed
                              /\ streamCloses' = streamCloses
                              /\ actorStopped' = actorStopped
                              /\ locks' = locks]_vars

C18_Witness ==
  /\ slast.op = "close" /\ slast.ret = "Ok" /\ slast.closed
  /\ streamCloses[slast.side] = 1
  /\ connClosed[slast.side] = "LocallyClosed"

\* C19: of the clones of a Stream at most one is inside the receive half and at
\* most one inside the send half, and a caller that finds the half busy gets
\* Pending while channels and guards stay as they were.
C19_OneCallerPerHalf ==
  [][/\ \A s \in Sides, c \in ChanIds, half \in {"send", "recv"} :
          Cardinality({l \in locks'[s] : l.ch = c /\ l.half = half}) <= 1
     /\ (slast'.busy /\ slast' # slast)
          => /\ slast'.ret = "Pending"
             /\ chans' = chans
             /\ locks' = locks
             /\ \E l \in locks[slast'.side] :
                  l.ch = slast'.ch /\ l.half = HalfOf(slast'.op)]_vars

C19_Witness ==
  /\ slast.busy /\ slast.ret = "Pending" /\ slast.op = "flush"
  /\ \E l \in locks[slast.side] : l.ch = slast.ch /\ l.half = "send" /\ l.op = "write"
  /\ \E l \in locks[slast.side] : l.ch = slast.ch /\ l.half = "recv"

\* ------------------------------------------------------------ C21
\* C21: no step of a dial (the call, the actor's answer to it, a poll of its
\* future), and so none of a dial that fails at once or through its future,
\* changes the actor's listener id or router or the Transport's event queue; and
\* however many dials failed before it, a dial of an address that carries a NodeId
\* returns its future.
C21_FailedDialChangesNothing ==
  [][/\ (\/ tcall.op = "dial" \/ tcall'.op = "dial"
          \/ dials' # dials \/ dlast' # dlast
          \/ (Len(hist') = Len(hist) + 1 /\ hist'[Len(hist')].op = "dial"))
         => /\ listener_id' = listener_id
            /\ router' = router
            /\ events' = events
            /\ sentLog' = sentLog
     /\ \A i \in 1..Len(hist') :
          (hist'[i].op = "dial" /\ hist'[i].id # None) => hist'[i].ret = "Ok"]_vars

\* C21's case: with a listener registered and its NewAddress still queued, a dial
\* failed at once, the future of the next dial failed, and the future of the dial
\* after that connected.
C21_Witness ==
  /\ listener_id # None /\ router # None /\ events # <<>>
  /\ \E i \in 1..Len(hist) :
       /\ hist[i].op = "dial" /\ hist[i].ret = "DialErr" /\ hist[i].reg # None
       /\ \E j \in (i + 1)..Len(hist) : hist[j].op = "dial" /\ hist[j].ret = "Ok"
  /\ Len(dials) = 2 /\ dials[1].st = "err" /\ dials[2].st = "ok"

\* ------------------------------------------------------------ C23
\* C23: node_id_to_peerid followed by peer_id_to_node_id gives back the NodeId, and
\* whenever peer_id_to_node_id gives a NodeId for a PeerId, node_id_to_peerid of
\* that NodeId gives back the PeerId.
C23_PeerIdRoundTrip ==
  \A i \in 1..Len(chain) :
    /\ (/\ i + 2 <= Len(chain)
        /\ chain[i].kind = "node"
        /\ chain[i + 1].by = "node_id_to_peerid"
        /\ chain[i + 2].by = "peer_id_to_node_id")
         => (chain[i + 2].kind = "node" /\ chain[i + 2].node = chain[i].node)
    /\ (/\ i + 2 <= Len(chain)
        /\ chain[i].kind = "peer"
        /\ chain[i + 1].by = "peer_id_to_node_id" /\ chain[i + 1].kind = "node"
        /\ chain[i + 2].by = "node_id_to_peerid")
         => chain[i + 2].pid = chain[i].pid

\* ------------------------------------------------------------ C24
\* C24: multiaddr_to_iroh_node_id of the Multiaddr iroh_node_id_to_multiaddr makes
\* of a NodeId is Some of that NodeId.
C24_MultiaddrRoundTrip ==
  \A i \in 1..Len(chain) :
    (/\ i + 2 <= Len(chain)
     /\ chain[i].kind = "node"
     /\ chain[i + 1].by = "iroh_node_id_to_multiaddr"
     /\ chain[i + 2].by = "multiaddr_to_iroh_node_id")
      => (chain[i + 2].kind = "node" /\ chain[i + 2].node = chain[i].node)

\* C24's case: a NodeId other than the first was taken to its Multiaddr and back.
C24_Witness ==
  /\ Len(chain) >= 3
  /\ chain[1].kind = "node" /\ chain[1].node = 3
  /\ chain[2].by = "iroh_node_id_to_multiaddr" /\ Len(chain[2].addr) = 1
  /\ chain[3].by = "multiaddr_to_iroh_node_id" /\ chain[3].node = 3

\* ------------------------------------------------------------ C22
\* C22: whatever a Transport's dial future or the Connecting of its Incoming event
\* yields is the peer_id the other Transport reports as its own; a dial of the
\* address the listening peer announced connects.
C22_PeersSeeEachOther ==
  \A s \in Sides :
    /\ \A y \in yielded[s] :
         ident[Peer(s)].st = "made" /\ y.peer = ident[Peer(s)].peer
    /\ (announced[Peer(s)] # <<>> /\ ident[s].st = "made")
         => MultiaddrToNodeId(announced[Peer(s)]) = ident[Peer(s)].node

\* C22's case: A listens, B has dialed the address A announced, B's dial future and
\* A's Connecting have both yielded.
C22_Witness ==
  /\ announced["A"] # <<>>
  /\ linked["B"]
  /\ yielded["B"] = {[via |-> "dial", peer |-> ident["A"].peer]}
  /\ yielded["A"] = {[via |-> "incoming", peer |-> ident["B"].peer]}
  /\ ident["A"].node = 2 /\ ident["B"].node = 3

\* ------------------------------------------------------------ C25
\* C25: the actor's state changes, and a call is answered with a result, only by
\* the action at the head of the mailbox, which that step removes and no other;
\* an action sent joins the mailbox at its end.  So the actions run one at a time
\* in the order they were received.
C25_ActionsRunInOrder ==
  [][/\ (\/ listener_id' # listener_id
          \/ router' # router
          \/ \E c \in Callers : IsOk(reply'[c]) /\ reply'[c] # reply[c])
         => /\ mailbox # <<>>
            /\ mailbox' = Tail(mailbox)
            /\ IsOk(reply'[Head(mailbox).from])
            /\ \A c \in Callers \ {Head(mailbox).from} : reply'[c] = reply[c]
     /\ Len(mailbox') > Len(mailbox)
         => \E m \in {mailbox'[Len(mailbox')]} : mailbox' = Append(mailbox, m)
     /\ Len(mailbox') < Len(mailbox) => mailbox' = Tail(mailbox)]_vars

\* C25's case: the host's action that registers the listener has run while the
\* accept task's action waits in the mailbox.
C25_Witness ==
  /\ tpc = "L_set" /\ IsOk(reply[Host]) /\ listener_id # None
  /\ Len(mailbox) = 1 /\ mailbox[1].from # Host

\* ------------------------------------------------------------ C26
\* C26: the only router ever spawned is that of a listen_on which returned Ok, and
\* no remove_listener has taken the listener away: then no accept has found
\* 'no listener registered'.
C26_NoRejectDuringListen ==
  (/\ tpc = "idle"
   /\ spawned = 1
   /\ \E i \in 1..Len(hist) : hist[i].op = "listen_on" /\ hist[i].ret = "Ok"
   /\ \A i \in 1..Len(hist) : hist[i].op = "remove_listener" => hist[i].ret = "false")
    => \A k \in Tasks : acc[k].pc # "nolistener"

\* ------------------------------------------------------------ C27
\* C27: the actor holds a router exactly when it holds a listener id.
C27_RouterIffListener == (router # None) <=> (listener_id # None)

\* ------------------------------------------------------------ C28
\* C28: every Incoming event enqueued with a listener id has a NewAddress event
\* with that id enqueued before it.
C28_NewAddressBeforeIncoming ==
  \A i \in 1..Len(sentLog) :
    sentLog[i].type = "Incoming"
      => \E j \in 1..(i - 1) : sentLog[j] = NewAddress(sentLog[i].listener_id)

\* ------------------------------------------------------------ C29
\* C29: with the peer and the network doing nothing to the connection, a read or
\* write on a Stream that has not been closed itself does not fail, whichever
\* other Streams of the Connection were closed, and neither does a poll_outbound
\* of the Connection.
C29_CloseLeavesSiblings ==
  /\ (slast.op \in {"read", "write"} /\ ~slast.closed /\ ~slast.busy)
       => slast.ret # "Err"
  /\ last.op = "poll_outbound" => last.ret # "Err"

\* ------------------------------------------------------------ C30
\* C30: the two directions of a Connection do not depend on each other.  A step
\* that changes a side's outgoing slot or starts an open leaves every incoming
\* slot and the accepts as they were, and the other way round.  Whatever its
\* incoming slot holds, a poll_outbound on an empty outgoing slot starts an open
\* and, while the connection has a free stream, returns the Stream; whatever its
\* outgoing slot holds, a poll_inbound on an empty incoming slot starts an
\* accept and, when the peer's next substream is there with its handshake byte
\* arrived, returns the Stream.
C30_DirectionsIndependent ==
  [][/\ (outgoing' # outgoing \/ openCalls' # openCalls)
          => (incoming' = incoming /\ acceptCalls' = acceptCalls)
     /\ (incoming' # incoming \/ acceptCalls' # acceptCalls)
          => (outgoing' = outgoing /\ openCalls' = openCalls)
     /\ \A s \in Sides :
          (last' # last /\ last'.op = "poll_outbound" /\ last'.side = s)
            => /\ incoming'[s] = incoming[s]
               /\ outgoing[s].st = "none" => openCalls'[s] = openCalls[s] + 1
               /\ Len(chans) < MaxChans => last'.ret = "Ok"
     /\ \A s \in Sides :
          (last' # last /\ last'.op = "poll_inbound" /\ last'.side = s)
            => /\ outgoing'[s] = outgoing[s]
               /\ incoming[s].st = "none" => acceptCalls'[s] = acceptCalls[s] + 1
               /\ (/\ incoming[s].st \in {"none", "chan"}
                   /\ Acceptable(s) # {}
                   /\ HandshakeReadable(chans[Min(Acceptable(s))]))
                    => last'.ret = "Ok"
    ]_vars

\* A poll_outbound returned a Stream while the same side's accept was pending,
\* and a poll_inbound returned one while the same side's open was pending.
C30_Witness ==
  \/ /\ last.op = "poll_outbound"
     /\ last.ret = "Ok"
     /\ incoming[last.side].st \in {"chan", "byte"}
     /\ Len(chans) = 1
  \/ /\ last.op = "poll_inbound"
     /\ last.ret = "Ok"
     /\ outgoing[last.side].st \in {"chan", "byte"}

\* ------------------------------------------------------------ C31
\* C31: a task whose poll_read, poll_write or poll_flush returned Pending because
\* another clone held the half's lock is polled again once the lock has been
\* released (for a read: with a byte there to read), so it does not stay parked
\* forever.
C31_BusyPendingWoken ==
  \A t \in Clones :
    (/\ cloneTask[t].st = "parked"
     /\ cloneTask[t].reg = "none"
     /\ TryLock(locks[Opener], cloneTask[t].ch, HalfOf(cloneTask[t].op))
     /\ cloneTask[t].op = "read" => Arrived(Opener, cloneTask[t].ch))
      ~> (cloneTask[t].st # "parked")

====
